---------------------------- MODULE Spec2Model ----------------------------
(***************************************************************************)
(* Support portal: intent classifier, affinity aggregator, boosted search  *)
(* ranker and the RAG chat turn with its HTTP endpoint.                    *)
(*                                                                         *)
(* Strings are sequences of one-character strings, so that toLowerCase,    *)
(* trim and String.prototype.includes are computed character by character. *)
(* Fractions (relevance scores, affinities) are exact rationals [n, d];    *)
(* the classifier's confidence is kept in tenths.                          *)
(***************************************************************************)
EXTENDS Integers, Sequences, FiniteSets, Bags, TLC

\* ------------------------------------------------------------------ bounds

\* Longest message, in words, handed to detectIntent.
MaxWords == 3

\* Most recommendations the recommendation proxy answers with.
MaxRecs == 3

\* Most articles the CMS returns for one of the two queries of a search.
MaxHits == 2

\* Most articles the CMS holds when the documents are synced.
MaxArticles == 2

\* Most runs of the sync in a row.
MaxRuns == 2

\* Longest creation of an index at the server, in ticks of 10 s.
MaxCreationTicks == 4

\* Most recommendations the CDP holds for a user.
MaxCdpRecs == 2

\* The requests an AIChat component sends.
MaxSends == 3

\* The resets of its conversation.
MaxResets == 2

\* The articles of a large CMS that one search query can match.
MaxPool == 12

\* The calls of initPersonalize.
MaxCallers == 3

\* The changes of the search modal's query, by typing or by closing.
MaxKeystrokes == 3

\* ------------------------------------------------------------ JS strings

UpperChars ==
  <<"A","B","C","D","E","F","G","H","I","J","K","L","M","N","O","P","Q","R","S","T","U","V","W","X","Y","Z">>

LowerChars ==
  <<"a","b","c","d","e","f","g","h","i","j","k","l","m","n","o","p","q","r","s","t","u","v","w","x","y","z">>

LowerChar(c) ==
  IF \E i \in 1..Len(UpperChars) : UpperChars[i] = c
  THEN LowerChars[CHOOSE i \in 1..Len(UpperChars) : UpperChars[i] = c]
  ELSE c

\* String.prototype.toLowerCase
ToLowerCase(s) == [i \in 1..Len(s) |-> LowerChar(s[i])]

\* String.prototype.includes
Includes(s, sub) ==
  \E i \in 0..(Len(s) - Len(sub)) : SubSeq(s, i + 1, i + Len(sub)) = sub

\* String.prototype.trim, as far as its callers use it: is anything left
TrimIsEmpty(s) == \A i \in 1..Len(s) : s[i] = " "

\* String.prototype.trim
Trim(s) ==
  IF TrimIsEmpty(s) THEN <<>>
  ELSE LET inked == {i \in 1..Len(s) : s[i] # " "}
           first == CHOOSE i \in inked : \A j \in inked : i <= j
           last == CHOOSE i \in inked : \A j \in inked : j <= i
       IN SubSeq(s, first, last)

RECURSIVE Join(_, _)
\* Array.prototype.join
Join(words, sep) ==
  IF Len(words) = 0 THEN <<>>
  ELSE IF Len(words) = 1 THEN words[1]
  ELSE words[1] \o sep \o Join(Tail(words), sep)

RECURSIVE Dedup(_)
\* Array.from(new Set(xs)): first occurrences, in order
Dedup(xs) ==
  IF Len(xs) = 0 THEN <<>>
  ELSE LET rest == Dedup(SubSeq(xs, 1, Len(xs) - 1))
           x == xs[Len(xs)]
       IN IF \E i \in 1..Len(rest) : rest[i] = x THEN rest ELSE Append(rest, x)

SeqToSet(xs) == {xs[i] : i \in 1..Len(xs)}

Min(a, b) == IF a <= b THEN a ELSE b

\* ------------------------------------------------------------ JS numbers
\* A fraction n/d, d > 0, kept in lowest terms.

RECURSIVE Gcd(_, _)
Gcd(a, b) == IF b = 0 THEN a ELSE Gcd(b, a % b)

Rat(n, d) == LET g == Gcd(n, d) IN [n |-> n \div g, d |-> d \div g]

RatAdd(a, b) == Rat(a.n * b.d + b.n * a.d, a.d * b.d)

RatDivInt(a, k) == Rat(a.n, a.d * k)

RatLess(a, b) == a.n * b.d < b.n * a.d

\* Math.max
RatMax(a, b) == IF RatLess(a, b) THEN b ELSE a

\* Math.round(a * 100): the nearest integer, halves upwards
RoundTimes100(a) == (200 * a.n + a.d) \div (2 * a.d)

\* --------------------------------------------------------------- variables

VARIABLES
  intentPc,         \* detectIntent: "call" before it runs, "done" after
  message,          \* detectIntent's argument
  intentResult,     \* what detectIntent returned
  affPc,            \* getUserTopicAffinities: "call", "fetching", "aggregate", "done"
  userUid,          \* its argument
  feed,             \* the recommendations the proxy holds for the user
  fetchOutcome,     \* how fetchLyticsRecommendations ended: "skipped" (no uid),
                    \* "ok", "nodata", "notok", "throws"; "none" before
  recommendations,  \* what fetchLyticsRecommendations returned
  affinities,       \* what getUserTopicAffinities returned
  boostPc,          \* searchArticlesWithBoost: "call", "title", "excerpt", "rank", "done"
  query,            \* its first argument
  userTopicAffinities, \* its second argument: the entries of the map, in key order
  titleResult,      \* searchArticles: the articles the title query found
  baseResults,      \* what searchArticles returned
  boostedResults,   \* what searchArticlesWithBoost returned
  chatPc,           \* POST /api/ai/chat: "request", "embedding", "querying",
                    \* "retrieved", "generating", "responded"
  chatBody,         \* the request body
  vectorStore,      \* namespace "articles" of the index: id -> metadata
  searchResults,    \* chat(): what searchDocuments returned
  llmCall,          \* the arguments of hf.chatCompletion, once it is called
  callLog,          \* the external calls of the turn and how each ended, in order
  thrown,           \* the error that reached POST's catch
  httpResponse      \* the response of the endpoint

VARIABLES
  syncPc,           \* POST /api/ai/sync-docs: "request", "listing", "creating",
                    \* "waiting", "fetching", "loop", "embedding", "upserting",
                    \* "responded"
  cmsArticles,      \* the article entries of the CMS
  pineconeIndex,    \* the index "support-docs" at Pinecone
  namespace,        \* the records of its namespace "articles"
  indexExists,      \* ensureIndexExists: was the index listed
  articles,         \* the sync route: what getArticles returned
  cursor,           \* the position of its loop in articles
  synced,           \* its count of stored articles
  errors,           \* its list of failures
  embedding,        \* storeDocumentEmbedding: the embedding
  syncLog,          \* the external calls of the run, in order
  createLog,        \* how each createIndex ever issued ended
  runs,             \* how many runs have answered
  runHistory,       \* what the last finished runs answered and left in the namespace
  syncResponse      \* the response of the route

VARIABLES
  modalPc,          \* SearchModal.performSearch: "typed", "searching", "shown"
  userAffinities,   \* the affinity map the modal holds, as entries
  isBoosted,        \* its isBoosted state
  results,          \* its results state
  searchKind        \* which search performSearch took: "boosted", "plain"; "none"

VARIABLES
  recPc,            \* loadRecommendations: "mounted", "recommendations", "articles",
                    \* "featured", "done"
  variant,          \* which version of the component runs
  profileLoading,   \* useLytics().isLoading
  profileUid,       \* useLytics().profile?.uid, "" when there is none
  cdpRecs,          \* the recommendations the CDP holds for the user
  featuredArticles, \* the featured articles of the CMS
  lyticsRecs,       \* what fetchLyticsRecommendations returned
  recArticles,      \* the component's articles state
  isLoading,        \* its isLoading state
  isPersonalized    \* its isPersonalized state

VARIABLES
  messages,         \* AIChat: its messages state (each with the conversation it
                    \* belongs to, counted in resets)
  input,            \* its input state
  chatLoading,      \* its isLoading state
  sessionId,        \* its sessionId state, "" for null
  sessionSetIn,     \* the conversation of the request whose response set it,
                    \* -1 while it is null
  inFlight,         \* the fetches to /api/ai/chat that have not answered
  conversation,     \* how often resetChat ran
  sends,            \* how many requests were sent
  turns             \* the successful responses: what was sent and returned

VARIABLES
  resetPc,          \* POST (reset index): "request", "deleting", "deleted",
                    \* "creating", "waiting", "responded"
  resetLog,         \* its calls and waits, in order
  resetResponse,    \* its response
  indexBefore,      \* the index as the run found it
  ensurePc,         \* ensureIndexExists, for each of two overlapping invocations:
                    \* "call", "listing", "creating", "waiting", "returned", "thrown"
  ensureLog         \* the Pinecone calls of the two, in order

VARIABLES
  configured,       \* initPersonalize: in a browser with a project uid configured
  sdkInstance,      \* the module's sdkInstance: 0 for null, else the invocation
                    \* of Personalize.init that produced it
  initializationPromise, \* the module's initializationPromise: 0 for null, else
                    \* the invocation of Personalize.init it waits for
  inits,            \* the invocations of Personalize.init: "pending", "resolved",
                    \* "rejected"
  received          \* what each call of initPersonalize returned

VARIABLES
  isOpen,           \* SearchModal while the user types: its isOpen prop
  modalQuery,       \* its query state
  debounceTimer,    \* the pending timer of its debounce effect, if any
  searchesInFlight, \* the calls of performSearch that await their search
  keystrokes,       \* how often the query changed
  latest            \* the most recently issued performSearch and its answer

intentVars == <<intentPc, message, intentResult>>

typingVars == <<isOpen, modalQuery, debounceTimer, searchesInFlight, keystrokes, latest>>

sdkVars == <<configured, sdkInstance, initializationPromise, inits, received>>

resetVars == <<resetPc, resetLog, resetResponse, indexBefore>>

ensureVars == <<ensurePc, ensureLog>>

aiChatVars ==
  <<messages, input, chatLoading, sessionId, sessionSetIn, inFlight, conversation, sends,
    turns>>

recsVars ==
  <<recPc, variant, profileLoading, profileUid, cdpRecs, featuredArticles, lyticsRecs,
    recArticles, isLoading, isPersonalized>>

modalVars == <<modalPc, userAffinities, isBoosted, results, searchKind>>

syncVars ==
  <<syncPc, cmsArticles, pineconeIndex, namespace, indexExists, articles, cursor, synced,
    errors, embedding, syncLog, createLog, runs, runHistory, syncResponse>>

affVars == <<affPc, userUid, feed, fetchOutcome, recommendations, affinities>>

boostVars == <<boostPc, query, userTopicAffinities, titleResult, baseResults, boostedResults>>

chatVars ==
  <<chatPc, chatBody, vectorStore, searchResults, llmCall, callLog, thrown, httpResponse>>

vars == <<intentVars, affVars, boostVars, chatVars, syncVars, modalVars, recsVars, aiChatVars, resetVars, ensureVars, sdkVars, typingVars>>

\* What each component leaves alone.
notIntentVars == <<affVars, boostVars, chatVars, syncVars, modalVars, recsVars, aiChatVars, resetVars, ensureVars, sdkVars, typingVars>>

notAffVars == <<intentVars, boostVars, chatVars, syncVars, modalVars, recsVars, aiChatVars, resetVars, ensureVars, sdkVars, typingVars>>

notBoostVars == <<intentVars, affVars, chatVars, syncVars, modalVars, recsVars, aiChatVars, resetVars, ensureVars, sdkVars, typingVars>>

notChatVars == <<intentVars, affVars, boostVars, syncVars, modalVars, recsVars, aiChatVars, resetVars, ensureVars, sdkVars, typingVars>>

notSyncVars == <<intentVars, affVars, boostVars, chatVars, modalVars, recsVars, aiChatVars, resetVars, ensureVars, sdkVars, typingVars>>

notRecsVars == <<intentVars, affVars, boostVars, chatVars, syncVars, modalVars, aiChatVars, resetVars, ensureVars, sdkVars, typingVars>>

notAIChatVars == <<intentVars, affVars, boostVars, chatVars, syncVars, modalVars, recsVars, resetVars, ensureVars, sdkVars, typingVars>>

notResetVars == <<intentVars, affVars, boostVars, chatVars, syncVars, modalVars, recsVars, aiChatVars, ensureVars, sdkVars, typingVars>>

notEnsureVars == <<intentVars, affVars, boostVars, chatVars, syncVars, modalVars, recsVars, aiChatVars, resetVars, sdkVars, typingVars>>

\* The variables of the sync route other than the index and its namespace.
syncRest ==
  <<syncPc, cmsArticles, indexExists, articles, cursor, synced, errors, embedding, syncLog,
    createLog, runs, runHistory, syncResponse>>

\* What the routes that only work on the index leave alone.
notIndexVars == <<intentVars, affVars, boostVars, chatVars, syncRest, modalVars, recsVars, aiChatVars, sdkVars, typingVars>>

\* What the search modal leaves alone while the user types.
besideModalVars ==
  <<intentVars, affVars, boostVars, chatVars, syncVars, recsVars, aiChatVars, resetVars,
    ensureVars, sdkVars>>

notSdkVars == <<intentVars, affVars, boostVars, chatVars, syncVars, modalVars, recsVars, aiChatVars, resetVars, ensureVars, typingVars>>

notTypingVars == <<intentVars, affVars, boostVars, chatVars, syncVars, modalVars, recsVars, aiChatVars, resetVars, ensureVars, sdkVars>>

None == "none"

\* ------------------------------------------------------- intent classifier

intents ==
  << [intent |-> "authentication",
      keywords |-> << <<"l","o","g","i","n">>,
                     <<"p","a","s","s","w","o","r","d">>,
                     <<"2","f","a">>,
                     <<"a","u","t","h">>,
                     <<"s","i","g","n"," ","i","n">>,
                     <<"l","o","c","k","e","d">>,
                     <<"a","c","c","e","s","s">> >>],
     [intent |-> "billing",
      keywords |-> << <<"i","n","v","o","i","c","e">>,
                     <<"p","a","y","m","e","n","t">>,
                     <<"c","h","a","r","g","e">>,
                     <<"s","u","b","s","c","r","i","p","t","i","o","n">>,
                     <<"r","e","f","u","n","d">>,
                     <<"b","i","l","l","i","n","g">>,
                     <<"p","r","i","c","e">> >>],
     [intent |-> "api",
      keywords |-> << <<"a","p","i">>,
                     <<"e","n","d","p","o","i","n","t">>,
                     <<"r","e","q","u","e","s","t">>,
                     <<"r","e","s","p","o","n","s","e">>,
                     <<"4","0","1">>,
                     <<"4","0","3">>,
                     <<"5","0","0">>,
                     <<"e","r","r","o","r"," ","c","o","d","e">> >>],
     [intent |-> "integration",
      keywords |-> << <<"i","n","t","e","g","r","a","t","e">>,
                     <<"w","e","b","h","o","o","k">>,
                     <<"c","o","n","n","e","c","t">>,
                     <<"s","e","t","u","p">>,
                     <<"c","o","n","f","i","g","u","r","e">> >>],
     [intent |-> "account",
      keywords |-> << <<"a","c","c","o","u","n","t">>,
                     <<"p","r","o","f","i","l","e">>,
                     <<"s","e","t","t","i","n","g","s">>,
                     <<"e","m","a","i","l">>,
                     <<"n","a","m","e">>,
                     <<"d","e","l","e","t","e">> >>],
     [intent |-> "troubleshooting",
      keywords |-> << <<"n","o","t"," ","w","o","r","k","i","n","g">>,
                     <<"e","r","r","o","r">>,
                     <<"i","s","s","u","e">>,
                     <<"p","r","o","b","l","e","m">>,
                     <<"h","e","l","p">>,
                     <<"b","r","o","k","e","n">>,
                     <<"f","i","x">> >>] >>

\* keywords.filter((kw) => messageLower.includes(kw))
KeywordMatches(keywords, messageLower) ==
  SelectSeq(keywords, LAMBDA kw : Includes(messageLower, kw))

\* A tie replaces the intent found so far: >= where the code has >.
IsNewMax_OrEqual(n, maxMatches) == n >= maxMatches

\* if (matches.length > maxMatches)
IsNewMax(n, maxMatches) == n > maxMatches

\* The body of the for loop over Object.entries(intents), for one entry.
IntentStep(acc, entry, messageLower) ==
  LET matches == KeywordMatches(entry.keywords, messageLower)
  IN IF IsNewMax(Len(matches), acc.maxMatches)
     THEN [maxMatches |-> Len(matches),
           detectedIntent |-> entry.intent,
           topics |-> acc.topics \o matches]
     ELSE acc

RECURSIVE IntentLoop(_, _, _)
\* The for loop, from entry i on, in table order.
IntentLoop(acc, i, messageLower) ==
  IF i > Len(intents) THEN acc
  ELSE IntentLoop(IntentStep(acc, intents[i], messageLower), i + 1, messageLower)

\* The confidence without its ceiling.
Confidence_Uncapped(maxMatches) == maxMatches * 3 + 4

\* Math.min(maxMatches * 0.3 + 0.4, 1), in tenths
Confidence(maxMatches) == Min(maxMatches * 3 + 4, 10)

detectIntent(msg) ==
  LET messageLower == ToLowerCase(msg)
      acc == IntentLoop([maxMatches |-> 0, detectedIntent |-> "general", topics |-> <<>>],
                        1, messageLower)
  IN [intent |-> acc.detectedIntent,
      confidence |-> Confidence(acc.maxMatches),
      topics |-> Dedup(acc.topics)]

\* The words messages are made of: keywords of several intents in mixed case,
\* the two halves of the keyword "error code", and a word that is no keyword.
Vocabulary ==
  { <<"L","o","g","i","n">>,
    <<"P","A","S","S","W","O","R","D">>,
    <<"i","n","v","o","i","c","e">>,
    <<"p","a","y","m","e","n","t">>,
    <<"r","e","f","u","n","d">>,
    <<"e","r","r","o","r">>,
    <<"c","o","d","e">>,
    <<"h","e","l","p">>,
    <<"h","e","l","l","o">> }

WordSeqs == UNION {[1..n -> Vocabulary] : n \in 0..MaxWords}

Messages == {Join(ws, <<" ">>) : ws \in WordSeqs}

IntentInit ==
  /\ intentPc = "call"
  /\ message \in Messages
  /\ intentResult = None

IntentIdle ==
  /\ intentPc = "idle"
  /\ message = <<>>
  /\ intentResult = None

DetectIntent ==
  /\ intentPc = "call"
  /\ intentResult' = detectIntent(message)
  /\ intentPc' = "done"
  /\ UNCHANGED message
  /\ UNCHANGED notIntentVars

IntentNext == DetectIntent

\* ------------------------------------------------------ affinity aggregator

Topics == { <<"b","i","l","l","i","n","g">>, <<"a","p","i">> }

\* The relevance scores the feed carries: 0.2 and 0.8.
Scores == { Rat(2, 10), Rat(8, 10) }

\* A recommendation's topic_relevances: its entries in the object's own order.
TopicRelevances ==
  { <<>> }
  \cup { <<[topic |-> t, score |-> x]>> : t \in Topics, x \in Scores }
  \cup { <<[topic |-> t, score |-> x], [topic |-> u, score |-> y]>> :
           <<t, u>> \in {p \in Topics \X Topics : p[1] # p[2]}, <<x, y>> \in Scores \X Scores }

Feeds == UNION {[1..n -> [topic_relevances : TopicRelevances]] : n \in 0..MaxRecs}

\* fetchLyticsRecommendations(userUid, 10)
AffinityLimit == 10

\* A feed of more recommendations than getUserTopicAffinities asks for: the
\* last scores billing 0.8, the others 0.2.
LongFeed ==
  [i \in 1..(AffinityLimit + 1) |->
     [topic_relevances |->
        <<[topic |-> <<"b","i","l","l","i","n","g">>,
           score |-> IF i <= AffinityLimit THEN Rat(2, 10) ELSE Rat(8, 10)]>>]]

\* if (!topicScores[topic]) topicScores[topic] = []; topicScores[topic].push(score)
PushScore(topicScores, topic, score) ==
  IF \E i \in 1..Len(topicScores) : topicScores[i].topic = topic
  THEN [i \in 1..Len(topicScores) |->
          IF topicScores[i].topic = topic
          THEN [topicScores[i] EXCEPT !.scores = Append(@, score)]
          ELSE topicScores[i]]
  ELSE Append(topicScores, [topic |-> topic, scores |-> <<score>>])

RECURSIVE PushEntries(_, _)
\* for (const [topic, score] of Object.entries(rec.topic_relevances))
PushEntries(topicScores, entries) ==
  IF Len(entries) = 0 THEN topicScores
  ELSE PushEntries(PushScore(topicScores, entries[1].topic, entries[1].score), Tail(entries))

RECURSIVE BucketScores(_, _)
\* for (const rec of recommendations)
BucketScores(topicScores, recs) ==
  IF Len(recs) = 0 THEN topicScores
  ELSE BucketScores(PushEntries(topicScores, recs[1].topic_relevances), Tail(recs))

RECURSIVE SumScores(_)
\* scores.reduce((a, b) => a + b, 0)
SumScores(scores) ==
  IF Len(scores) = 0 THEN Rat(0, 1)
  ELSE RatAdd(SumScores(SubSeq(scores, 1, Len(scores) - 1)), scores[Len(scores)])

RECURSIVE MaxScore(_)
MaxScore(scores) ==
  IF Len(scores) = 0 THEN Rat(0, 1)
  ELSE RatMax(MaxScore(SubSeq(scores, 1, Len(scores) - 1)), scores[Len(scores)])

\* The strongest score of the bucket instead of its mean.
Average_Max(scores) == MaxScore(scores)

\* scores.reduce((a, b) => a + b, 0) / scores.length
Average(scores) == RatDivInt(SumScores(scores), Len(scores))

\* The affinity map, its keys in insertion order.
AffinitiesOf(recs) ==
  LET topicScores == BucketScores(<<>>, recs)
  IN [i \in 1..Len(topicScores) |->
        [topic |-> topicScores[i].topic, affinity |-> Average(topicScores[i].scores)]]

AffInit ==
  /\ affPc = "call"
  /\ userUid \in {"", "u1"}
  /\ feed \in Feeds \cup {LongFeed}
  /\ fetchOutcome = "none"
  /\ recommendations = <<>>
  /\ affinities = <<>>

AffIdle ==
  /\ affPc = "idle"
  /\ userUid = ""
  /\ feed = <<>>
  /\ fetchOutcome = "none"
  /\ recommendations = <<>>
  /\ affinities = <<>>

\* getUserTopicAffinities calls fetchLyticsRecommendations(userUid, 10), which
\* returns [] at once for a missing uid and otherwise asks the proxy.
AffCall ==
  /\ affPc = "call"
  /\ IF userUid = ""
     THEN affPc' = "aggregate" /\ fetchOutcome' = "skipped"
     ELSE affPc' = "fetching" /\ fetchOutcome' = "none"
  /\ recommendations' = <<>>
  /\ UNCHANGED <<userUid, feed, affinities>>
  /\ UNCHANGED notAffVars

\* The proxy answers 200 with the data array the CDP returned: the route reads
\* the limit parameter and neither forwards nor applies it.
AffFetchOk ==
  /\ affPc = "fetching"
  /\ recommendations' = feed
  /\ affPc' = "aggregate"
  /\ fetchOutcome' = "ok"
  /\ UNCHANGED <<userUid, feed, affinities>>
  /\ UNCHANGED notAffVars

\* The proxy answers 200 with a body that has no data field: data.data || [].
AffFetchNoData ==
  /\ affPc = "fetching"
  /\ recommendations' = <<>>
  /\ affPc' = "aggregate"
  /\ fetchOutcome' = "nodata"
  /\ UNCHANGED <<userUid, feed, affinities>>
  /\ UNCHANGED notAffVars

\* The proxy answers with a non-OK status.
AffFetchNotOk ==
  /\ affPc = "fetching"
  /\ recommendations' = <<>>
  /\ affPc' = "aggregate"
  /\ fetchOutcome' = "notok"
  /\ UNCHANGED <<userUid, feed, affinities>>
  /\ UNCHANGED notAffVars

\* fetch throws and the error leaves getUserTopicAffinities.
AffFetchThrows_Propagates ==
  /\ affPc = "fetching"
  /\ affPc' = "failed"
  /\ fetchOutcome' = "throws"
  /\ UNCHANGED <<userUid, feed, recommendations, affinities>>
  /\ UNCHANGED notAffVars

\* fetch, or response.json(), throws.
AffFetchThrows ==
  /\ affPc = "fetching"
  /\ recommendations' = <<>>
  /\ affPc' = "aggregate"
  /\ fetchOutcome' = "throws"
  /\ UNCHANGED <<userUid, feed, affinities>>
  /\ UNCHANGED notAffVars

\* The rest of getUserTopicAffinities, once the recommendations are there.
AffAggregate ==
  /\ affPc = "aggregate"
  /\ affinities' = AffinitiesOf(recommendations)
  /\ affPc' = "done"
  /\ UNCHANGED <<userUid, feed, fetchOutcome, recommendations>>
  /\ UNCHANGED notAffVars

AffNext ==
  \/ AffCall
  \/ AffFetchOk
  \/ AffFetchNoData
  \/ AffFetchNotOk
  \/ AffFetchThrows
  \/ AffAggregate

\* ---------------------------------------------------- boosted search ranker

\* The articles of the CMS.
ArticleA ==
  [uid |-> "a", title |-> <<"R","e","s","e","t"," ","p","a","s","s","w","o","r","d">>, excerpt |-> <<"A","u","t","h">>, article_tags |-> <<>>]

ArticleB ==
  [uid |-> "b", title |-> <<"L","o","g","i","n"," ","h","e","l","p">>, excerpt |-> <<"S","i","g","n"," ","i","n">>,
   article_tags |-> << <<"A","u","t","h","e","n","t","i","c","a","t","i","o","n">> >>]

ArticleC ==
  [uid |-> "c", title |-> <<"A","P","I"," ","b","i","l","l","i","n","g">>, excerpt |-> <<"I","n","v","o","i","c","e","s">>,
   article_tags |-> << <<"a","u","t","h">> >>]

ArticleD ==
  [uid |-> "d", title |-> <<"I","n","v","o","i","c","e","s">>, excerpt |-> <<"B","i","l","l","i","n","g"," ","F","A","Q">>, article_tags |-> <<>>]

Articles == {ArticleA, ArticleB, ArticleC, ArticleD}

\* What one CMS query can answer: distinct articles, at most MaxHits of them
\* (the query itself asks for at most 10).
HitLists ==
  {hits \in UNION {[1..n -> Articles] : n \in 0..MaxHits} :
     \A i, j \in 1..Len(hits) : hits[i] = hits[j] => i = j}

TopicAuthentication == <<"a","u","t","h","e","n","t","i","c","a","t","i","o","n">>

TopicApi == <<"a","p","i">>

TopicBilling == <<"b","i","l","l","i","n","g">>

\* The keys an affinity map is drawn from, in the order the map holds them.
BoostTopics == <<TopicAuthentication, TopicApi, TopicBilling>>

\* The affinities a key can have: 0.05, 0.1 and 0.9.
AffinityValues == {Rat(1, 20), Rat(1, 10), Rat(9, 10)}

NoKey == [n |-> 0, d |-> 0]

RECURSIVE EntriesOf(_, _)
\* Object.entries of the map that gives topic BoostTopics[i] the value f[i],
\* or no key where f[i] is NoKey.
EntriesOf(f, i) ==
  IF i > Len(BoostTopics) THEN <<>>
  ELSE IF f[i] = NoKey THEN EntriesOf(f, i + 1)
  ELSE <<[topic |-> BoostTopics[i], affinity |-> f[i]]>> \o EntriesOf(f, i + 1)

AffinityMaps ==
  {EntriesOf(f, 1) : f \in [1..Len(BoostTopics) -> AffinityValues \cup {NoKey}]}

Queries == { <<>>, <<" ">>, <<"p","a","s","s","w","o","r","d"," ","r","e","s","e","t">> }

\* The position of the last result searchArticles keeps: slice(0, 10).
SearchLimit == 10

RECURSIVE DedupeByUid(_)
\* uniqueMap: the first article of every uid, in order of first occurrence
DedupeByUid(combined) ==
  IF Len(combined) = 0 THEN <<>>
  ELSE LET rest == DedupeByUid(SubSeq(combined, 1, Len(combined) - 1))
           article == combined[Len(combined)]
       IN IF \E i \in 1..Len(rest) : rest[i].uid = article.uid
          THEN rest
          ELSE Append(rest, article)

\* searchArticles returns every distinct article the queries found.
CombineResults_NoSlice(titleHits, excerptHits) == DedupeByUid(titleHits \o excerptHits)

\* searchArticles, once both queries have answered
CombineResults(titleHits, excerptHits) ==
  LET unique == DedupeByUid(titleHits \o excerptHits)
  IN SubSeq(unique, 1, Min(Len(unique), SearchLimit))

\* matchesTag || matchesTitle || matchesExcerpt
MatchesTopic(article, topic) ==
  LET topicLower == ToLowerCase(topic)
      matchesTag ==
        \E k \in 1..Len(article.article_tags) :
          \/ Includes(ToLowerCase(article.article_tags[k]), topicLower)
          \/ Includes(topicLower, ToLowerCase(article.article_tags[k]))
      matchesTitle == Includes(ToLowerCase(article.title), topicLower)
      matchesExcerpt == Includes(ToLowerCase(article.excerpt), topicLower)
  IN matchesTag \/ matchesTitle \/ matchesExcerpt

\* .limit(10) of both queries of searchArticles
QueryLimit == 10

\* The articles of a large CMS that match a query, in the order the CMS
\* returns them; every second one is about the API.
ManyArticles ==
  [i \in 1..MaxPool |->
     [uid |-> ToString(i),
      title |-> IF i % 2 = 0 THEN <<"A","P","I"," ","g","u","i","d","e">> ELSE <<"G","u","i","d","e">>,
      excerpt |-> <<"S","t","e","p","s">>,
      article_tags |-> <<>>]]

\* What one query can answer from them: a run of at most QueryLimit articles.
ManyHitLists ==
  {[k \in 1..n |-> ManyArticles[a + k - 1]] :
     <<a, n>> \in {an \in (1..MaxPool) \X (0..QueryLimit) : an[1] + an[2] - 1 <= MaxPool}}

\* MatchesTopic over the articles and topics there are, computed once.
MatchingPairs ==
  {p \in (Articles \cup SeqToSet(ManyArticles)) \X SeqToSet(BoostTopics) :
     MatchesTopic(p[1], p[2])}

\* if (matchesTag || matchesTitle || matchesExcerpt)
IsMatch(article, topic) == <<article, topic>> \in MatchingPairs

\* The affinities of the matched topics add up.
TrackAffinity_Sum(maxAffinity, affinity) == RatAdd(maxAffinity, affinity)

\* maxAffinity = Math.max(maxAffinity, affinity)
TrackAffinity(maxAffinity, affinity) == RatMax(maxAffinity, affinity)

RECURSIVE ScanTopics(_, _, _)
\* for (const [topic, affinity] of Object.entries(userTopicAffinities))
ScanTopics(acc, article, entries) ==
  IF Len(entries) = 0 THEN acc
  ELSE LET e == entries[1]
           next == IF IsMatch(article, e.topic)
                   THEN [matchedTopics |-> Append(acc.matchedTopics, e.topic),
                         maxAffinity |-> TrackAffinity(acc.maxAffinity, e.affinity)]
                   ELSE acc
       IN ScanTopics(next, article, Tail(entries))

\* The score counts from 1: 100 - (index + 1) * 5.
SearchScore_FromOne(index) == 100 - (index + 1) * 5

\* searchScore = 100 - index * 5, index counted from 0
SearchScore(index) == 100 - index * 5

\* The callback of baseResults.map, for the article at (0-based) index.
BoostOne(article, index, entries) ==
  LET scan == ScanTopics([matchedTopics |-> <<>>, maxAffinity |-> Rat(0, 1)], article, entries)
      affinityBoost == RoundTimes100(scan.maxAffinity)
      searchScore == SearchScore(index)
  IN [uid |-> article.uid, title |-> article.title, excerpt |-> article.excerpt,
      article_tags |-> article.article_tags,
      searchScore |-> searchScore,
      affinityBoost |-> affinityBoost,
      totalScore |-> searchScore + affinityBoost,
      matchedTopics |-> scan.matchedTopics]

\* The comparator the wrong way round: a.totalScore - b.totalScore.
Compare_Ascending(a, b) == a.totalScore - b.totalScore

\* (a, b) => b.totalScore - a.totalScore
Compare(a, b) == b.totalScore - a.totalScore

\* x goes in front of the first element that does not sort before it.
InsertSorted_Unstable(sorted, x) ==
  LET before == {i \in 1..Len(sorted) : Compare(sorted[i], x) < 0}
      k == Cardinality(before)
  IN SubSeq(sorted, 1, k) \o <<x>> \o SubSeq(sorted, k + 1, Len(sorted))

\* Array.prototype.sort is stable: x goes behind every element that does not
\* sort after it.
InsertSorted(sorted, x) ==
  LET k == IF \E i \in 1..Len(sorted) : Compare(sorted[i], x) > 0
           THEN (CHOOSE i \in 1..Len(sorted) :
                   /\ Compare(sorted[i], x) > 0
                   /\ \A j \in 1..(i - 1) : Compare(sorted[j], x) <= 0) - 1
           ELSE Len(sorted)
  IN SubSeq(sorted, 1, k) \o <<x>> \o SubSeq(sorted, k + 1, Len(sorted))

RECURSIVE SortResults(_)
\* boostedResults.sort(...)
SortResults(rs) ==
  IF Len(rs) = 0 THEN <<>>
  ELSE InsertSorted(SortResults(SubSeq(rs, 1, Len(rs) - 1)), rs[Len(rs)])

\* Lines 851-899: map, then sort.
RankResults(base, entries) ==
  SortResults([i \in 1..Len(base) |-> BoostOne(base[i], i - 1, entries)])

BoostInit ==
  /\ boostPc = "call"
  /\ query \in Queries
  /\ userTopicAffinities \in AffinityMaps
  /\ titleResult = <<>>
  /\ baseResults = <<>>
  /\ boostedResults = <<>>

BoostIdle ==
  /\ boostPc = "idle"
  /\ query = <<>>
  /\ userTopicAffinities = <<>>
  /\ titleResult = <<>>
  /\ baseResults = <<>>
  /\ boostedResults = <<>>

\* searchArticlesWithBoost is called: a blank query returns [] at once,
\* any other goes to searchArticles, which starts its title query.
BoostCall ==
  /\ boostPc = "call"
  /\ IF TrimIsEmpty(query)
     THEN boostPc' = "done" /\ boostedResults' = <<>>
     ELSE boostPc' = "title" /\ boostedResults' = <<>>
  /\ UNCHANGED <<query, userTopicAffinities, titleResult, baseResults>>
  /\ UNCHANGED notBoostVars

\* The title query answers; searchArticles starts its excerpt query.
CmsTitleFind ==
  /\ boostPc = "title"
  /\ \E hits \in HitLists : titleResult' = hits
  /\ boostPc' = "excerpt"
  /\ UNCHANGED <<query, userTopicAffinities, baseResults, boostedResults>>
  /\ UNCHANGED notBoostVars

\* A query throws: searchArticles catches and returns [], and
\* searchArticlesWithBoost returns [] for an empty baseline.
CmsFindThrows ==
  /\ boostPc \in {"title", "excerpt"}
  /\ titleResult' = <<>>
  /\ baseResults' = <<>>
  /\ boostedResults' = <<>>
  /\ boostPc' = "done"
  /\ UNCHANGED <<query, userTopicAffinities>>
  /\ UNCHANGED notBoostVars

\* The excerpt query answers; searchArticles combines, dedupes and returns;
\* searchArticlesWithBoost returns [] for an empty baseline.
CmsExcerptFind ==
  /\ boostPc = "excerpt"
  /\ \E hits \in HitLists :
       LET base == CombineResults(titleResult, hits)
       IN /\ baseResults' = base
          /\ IF Len(base) = 0
             THEN boostPc' = "done" /\ boostedResults' = <<>>
             ELSE boostPc' = "rank" /\ boostedResults' = <<>>
  /\ titleResult' = <<>>
  /\ UNCHANGED <<query, userTopicAffinities>>
  /\ UNCHANGED notBoostVars

\* The map over baseResults, the sort and the return.
BoostRank ==
  /\ boostPc = "rank"
  /\ searchKind # "plain"
  /\ boostedResults' = RankResults(baseResults, userTopicAffinities)
  /\ boostPc' = "done"
  /\ UNCHANGED <<query, userTopicAffinities, titleResult, baseResults>>
  /\ UNCHANGED notBoostVars

\* The title query answers from a large CMS.
ManyTitleFind ==
  /\ boostPc = "title"
  /\ \E hits \in ManyHitLists : titleResult' = hits
  /\ boostPc' = "excerpt"
  /\ UNCHANGED <<query, userTopicAffinities, baseResults, boostedResults>>
  /\ UNCHANGED notBoostVars

\* The excerpt query answers from a large CMS; searchArticles combines,
\* dedupes, slices and returns.
ManyExcerptFind ==
  /\ boostPc = "excerpt"
  /\ \E hits \in ManyHitLists :
       LET base == CombineResults(titleResult, hits)
       IN /\ baseResults' = base
          /\ IF Len(base) = 0
             THEN boostPc' = "done" /\ boostedResults' = <<>>
             ELSE boostPc' = "rank" /\ boostedResults' = <<>>
  /\ UNCHANGED <<query, userTopicAffinities, titleResult>>
  /\ UNCHANGED notBoostVars

ManyNext ==
  \/ BoostCall
  \/ ManyTitleFind
  \/ ManyExcerptFind
  \/ BoostRank

BoostNext ==
  \/ BoostCall
  \/ CmsTitleFind
  \/ CmsFindThrows
  \/ CmsExcerptFind
  \/ BoostRank

\* ------------------------------------------------------------ search modal
\* SearchModal.performSearch, over searchArticles and searchArticlesWithBoost.

\* A query has been typed into the modal; no search is running.
ModalInit ==
  /\ modalPc = "typed"
  /\ userAffinities \in AffinityMaps
  /\ isBoosted \in BOOLEAN
  /\ results = <<>>
  /\ searchKind = "none"
  /\ boostPc = "idle"
  /\ query \in Queries
  /\ userTopicAffinities = <<>>
  /\ titleResult = <<>>
  /\ baseResults = <<>>
  /\ boostedResults = <<>>

ModalIdle ==
  /\ modalPc = "idle"
  /\ userAffinities = <<>>
  /\ isBoosted = FALSE
  /\ results = <<>>
  /\ searchKind = "none"

\* performSearch takes the boosted search whatever affinities are held.
PerformSearch_AlwaysBoosted ==
  /\ modalPc = "typed"
  /\ IF TrimIsEmpty(query)
     THEN /\ results' = <<>>
          /\ isBoosted' = FALSE
          /\ modalPc' = "shown"
          /\ UNCHANGED <<searchKind, boostPc, userTopicAffinities>>
     ELSE /\ searchKind' = "boosted"
          /\ userTopicAffinities' = userAffinities
          /\ boostPc' = "call"
          /\ modalPc' = "searching"
          /\ UNCHANGED <<results, isBoosted>>
  /\ UNCHANGED <<userAffinities, query, titleResult, baseResults, boostedResults>>
  /\ UNCHANGED <<intentVars, affVars, chatVars, syncVars, recsVars, aiChatVars, resetVars, ensureVars, sdkVars, typingVars>>

\* performSearch: a blank query clears the results; otherwise the boosted
\* search when affinities are held, else searchArticles, which starts with
\* its title query.
PerformSearch ==
  /\ modalPc = "typed"
  /\ IF TrimIsEmpty(query)
     THEN /\ results' = <<>>
          /\ isBoosted' = FALSE
          /\ modalPc' = "shown"
          /\ UNCHANGED <<searchKind, boostPc, userTopicAffinities>>
     ELSE IF Len(userAffinities) > 0
     THEN /\ searchKind' = "boosted"
          /\ userTopicAffinities' = userAffinities
          /\ boostPc' = "call"
          /\ modalPc' = "searching"
          /\ UNCHANGED <<results, isBoosted>>
     ELSE /\ searchKind' = "plain"
          /\ boostPc' = "title"
          /\ modalPc' = "searching"
          /\ UNCHANGED <<results, isBoosted, userTopicAffinities>>
  /\ UNCHANGED <<userAffinities, query, titleResult, baseResults, boostedResults>>
  /\ UNCHANGED <<intentVars, affVars, chatVars, syncVars, recsVars, aiChatVars, resetVars, ensureVars, sdkVars, typingVars>>

\* searchArticles returned: setIsBoosted(false), setResults(searchResults).
ShowPlain ==
  /\ modalPc = "searching"
  /\ searchKind = "plain"
  /\ boostPc \in {"rank", "done"}
  /\ results' = baseResults
  /\ isBoosted' = FALSE
  /\ modalPc' = "shown"
  /\ boostPc' = "done"
  /\ UNCHANGED <<userAffinities, searchKind, query, userTopicAffinities, titleResult,
                 baseResults, boostedResults>>
  /\ UNCHANGED <<intentVars, affVars, chatVars, syncVars, recsVars, aiChatVars, resetVars, ensureVars, sdkVars, typingVars>>

\* searchArticlesWithBoost returned: setIsBoosted(true), setResults.
ShowBoosted ==
  /\ modalPc = "searching"
  /\ searchKind = "boosted"
  /\ boostPc = "done"
  /\ results' = boostedResults
  /\ isBoosted' = TRUE
  /\ modalPc' = "shown"
  /\ UNCHANGED <<userAffinities, searchKind>>
  /\ UNCHANGED boostVars
  /\ UNCHANGED <<intentVars, affVars, chatVars, syncVars, recsVars, aiChatVars, resetVars, ensureVars, sdkVars, typingVars>>

ModalNext ==
  \/ PerformSearch
  \/ BoostCall
  \/ CmsTitleFind
  \/ CmsFindThrows
  \/ CmsExcerptFind
  \/ BoostRank
  \/ ShowPlain
  \/ ShowBoosted

\* ------------------------------------------------- chat turn and endpoint

\* The metadata of the documents the index can hold (storeDocumentEmbedding
\* writes title, slug and the truncated content); the third has no title.
DocMetadata ==
  [ d1 |-> [title |-> <<"R","e","s","e","t"," ","p","a","s","s","w","o","r","d">>, slug |-> "reset-password", content |-> <<"U","s","e"," ","t","h","e"," ","r","e","s","e","t"," ","l","i","n","k">>],
    d2 |-> [title |-> <<"L","o","g","i","n"," ","h","e","l","p">>, slug |-> "login-help", content |-> <<"S","i","g","n"," ","i","n"," ","f","i","r","s","t">>],
    d3 |-> [title |-> <<>>, slug |-> "untitled", content |-> <<"N","o","t","e","s">>],
    d4 |-> [title |-> <<"I","n","v","o","i","c","e","s">>, slug |-> "invoices", content |-> <<>>] ]

DocIds == DOMAIN DocMetadata

\* The index as a chat turn can find it: empty, partly or fully synced.
VectorStores ==
  { [id \in ids |-> DocMetadata[id]] : ids \in {{}, {"d1", "d3"}, DocIds} }

\* chat() asks searchDocuments for 3 matches.
TopK == 3

\* What the index can answer a query with: at most topK distinct entries, in
\* the order of their similarity to the query vector, which the store decides.
QueryAnswers(store, topK) ==
  {ms \in UNION {[1..n -> {[id |-> id, metadata |-> store[id]] : id \in DOMAIN store}] :
                   n \in 0..Min(topK, Cardinality(DOMAIN store))} :
     \A i, j \in 1..Len(ms) : ms[i] = ms[j] => i = j}

\* (result.metadata?.x as string) || fallback
OrElse(x, fallback) == IF x = <<>> THEN fallback ELSE x

\* chat(), step 2: relevantDocs
RelevantDocs(matches) ==
  [i \in 1..Len(matches) |->
     [content |-> OrElse(matches[i].metadata.content, <<>>),
      title |-> OrElse(matches[i].metadata.title, <<"U","n","k","n","o","w","n">>),
      slug |-> matches[i].metadata.slug]]

\* generateAIResponse: the history as a labelled transcript in front of the
\* question, when there is a history.
FullUserMessage(userMessage, conversationHistory) ==
  [transcript |->
     [i \in 1..Len(conversationHistory) |->
        [label |-> IF conversationHistory[i].role = "user" THEN "User" ELSE "Assistant",
         content |-> conversationHistory[i].content]],
   question |-> userMessage]

\* The messages of hf.chatCompletion: the system prompt, whose only variable
\* part is the documentation context, and the user message.
ChatCompletionArgs(userMessage, conversationHistory, relevantDocs) ==
  [context |-> [i \in 1..Len(relevantDocs) |->
                  [title |-> relevantDocs[i].title, content |-> relevantDocs[i].content]],
   user |-> FullUserMessage(userMessage, conversationHistory)]

Apology == <<"I"," ","a","p","o","l","o","g","i","z","e",","," ","I"," ","c","o","u","l","d","n","'","t"," ","g","e","n","e","r","a","t","e"," ","a"," ","r","e","s","p","o","n","s","e",".">>

\* generateAIResponse, after generateChatResponse returned the model's text
\* (empty when the completion carried none); relevance is in tenths.
AIResponseOf(userMessage, relevantDocs, completion) ==
  LET aiMessage == OrElse(completion, Apology)
      intentResult_ == detectIntent(userMessage)
  IN [message |-> Trim(aiMessage),
      sources |-> [i \in 1..Len(relevantDocs) |->
                     [title |-> relevantDocs[i].title,
                      slug |-> relevantDocs[i].slug,
                      relevance |-> 10 - (i - 1)]],
      intent |-> intentResult_.intent,
      confidence |-> intentResult_.confidence]

RateLimit == <<"r","a","t","e"," ","l","i","m","i","t">>

\* What a failing call can throw: Error instances with their message, and a
\* value that is no Error (a rejection with a string, say) and has no message.
ThrownValues ==
  { [isError |-> TRUE, message |-> <<"Y","o","u"," ","h","i","t"," ","t","h","e"," ","r","a","t","e"," ","l","i","m","i","t">>],
    [isError |-> TRUE, message |-> <<"R","a","t","e"," ","l","i","m","i","t"," ","r","e","a","c","h","e","d">>],
    [isError |-> TRUE, message |-> <<"M","o","d","e","l"," ","i","s"," ","l","o","a","d","i","n","g">>],
    [isError |-> FALSE, message |-> <<>>] }

\* request.json() on a body that is no JSON
JsonSyntaxError == [isError |-> TRUE, message |-> <<"U","n","e","x","p","e","c","t","e","d"," ","t","o","k","e","n">>]

NoError == [isError |-> FALSE, message |-> <<"-">>]

\* Every failure is answered 500.
ErrorResponse_Always500(error) ==
  [status |-> 500,
   body |-> [error |-> "Failed to generate response. Please try again.",
             details |-> IF error.isError THEN error.message ELSE <<"U","n","k","n","o","w","n"," ","e","r","r","o","r">>]]

\* POST's catch block (fullError, debugging detail, is left out of the body)
ErrorResponse(error) ==
  LET errorMessage == IF error.isError THEN error.message ELSE <<"U","n","k","n","o","w","n"," ","e","r","r","o","r">>
  IN IF Includes(errorMessage, RateLimit)
     THEN [status |-> 429,
           body |-> [error |-> "Too many requests. Please try again in a moment."]]
     ELSE [status |-> 500,
           body |-> [error |-> "Failed to generate response. Please try again.",
                     details |-> errorMessage]]

\* The ids generateSessionId can come up with.
FreshSessionIds == {"session_1", "session_2"}

ChatMessages == { <<"p","a","s","s","w","o","r","d"," ","h","e","l","p">>, <<"h","e","l","l","o">> }

Histories ==
  { <<>>,
    << [role |-> "user", content |-> <<"h","e","l","l","o">>],
       [role |-> "assistant", content |-> <<"H","i"," ","t","h","e","r","e">>] >> }

\* The text of the first completion choice; empty when there is none.
Completions == { <<" ","T","r","y"," ","t","h","e"," ","r","e","s","e","t"," ","l","i","n","k"," ">>, <<>> }

\* The bodies a request can carry: no JSON at all, JSON without a usable
\* message, or a message with optional history and session id ("" when absent).
ChatBodies ==
  { [kind |-> "not_json", message |-> <<>>, conversationHistory |-> <<>>, sessionId |-> ""],
    [kind |-> "json", message |-> <<>>, conversationHistory |-> <<>>, sessionId |-> ""] }
  \cup [kind : {"json"}, message : ChatMessages, conversationHistory : Histories,
        sessionId : {"", "session_0"}]

NoResponse == [status |-> 0, body |-> [error |-> "none"]]

NoCall == [context |-> <<>>, user |-> [transcript |-> <<>>, question |-> <<>>]]

ChatInit ==
  /\ chatPc = "request"
  /\ chatBody \in ChatBodies
  /\ vectorStore \in VectorStores
  /\ searchResults = <<>>
  /\ llmCall = NoCall
  /\ callLog = <<>>
  /\ thrown = NoError
  /\ httpResponse = NoResponse

ChatIdle ==
  /\ chatPc = "idle"
  /\ chatBody = [kind |-> "json", message |-> <<>>, conversationHistory |-> <<>>, sessionId |-> ""]
  /\ vectorStore = <<>>
  /\ searchResults = <<>>
  /\ llmCall = NoCall
  /\ callLog = <<>>
  /\ thrown = NoError
  /\ httpResponse = NoResponse

\* An error reaches POST's catch block, which answers.
Fail(error, event) ==
  /\ thrown' = error
  /\ httpResponse' = ErrorResponse(error)
  /\ callLog' = IF event = "" THEN callLog ELSE Append(callLog, event)
  /\ chatPc' = "responded"

\* POST: parse the body, validate the message, call chat(), whose first step,
\* searchDocuments, starts with the embedding of the message.
ChatPost ==
  /\ chatPc = "request"
  /\ IF chatBody.kind = "not_json"
     THEN Fail(JsonSyntaxError, "")
     ELSE IF chatBody.message = <<>>
     THEN /\ httpResponse' = [status |-> 400, body |-> [error |-> "Message is required"]]
          /\ chatPc' = "responded"
          /\ UNCHANGED <<callLog, thrown>>
     ELSE /\ callLog' = Append(callLog, "embed")
          /\ chatPc' = "embedding"
          /\ UNCHANGED <<thrown, httpResponse>>
  /\ UNCHANGED <<chatBody, vectorStore, searchResults, llmCall>>
  /\ UNCHANGED notChatVars

\* hf.featureExtraction answers; searchDocuments queries the index.
EmbedOk ==
  /\ chatPc = "embedding"
  /\ callLog' = callLog \o <<"embed_ok", "query">>
  /\ chatPc' = "querying"
  /\ UNCHANGED <<chatBody, vectorStore, searchResults, llmCall, thrown, httpResponse>>
  /\ UNCHANGED notChatVars

EmbedFails ==
  /\ chatPc = "embedding"
  /\ \E error \in ThrownValues : Fail(error, "embed_failed")
  /\ UNCHANGED <<chatBody, vectorStore, searchResults, llmCall>>
  /\ UNCHANGED notChatVars

\* The index answers; searchDocuments returns the matches to chat().
QueryOk ==
  /\ chatPc = "querying"
  /\ \E matches \in QueryAnswers(vectorStore, TopK) : searchResults' = matches
  /\ callLog' = Append(callLog, "query_ok")
  /\ chatPc' = "retrieved"
  /\ UNCHANGED <<chatBody, vectorStore, llmCall, thrown, httpResponse>>
  /\ UNCHANGED notChatVars

QueryFails ==
  /\ chatPc = "querying"
  /\ \E error \in ThrownValues : Fail(error, "query_failed")
  /\ UNCHANGED <<chatBody, vectorStore, searchResults, llmCall>>
  /\ UNCHANGED notChatVars

\* Generation starts alongside the retrieval, with the documents there are.
GenerateStart_Speculative ==
  /\ chatPc \in {"embedding", "querying", "retrieved"}
  /\ llmCall' = ChatCompletionArgs(chatBody.message, chatBody.conversationHistory,
                                   RelevantDocs(searchResults))
  /\ callLog' = Append(callLog, "llm")
  /\ chatPc' = "generating"
  /\ UNCHANGED <<chatBody, vectorStore, searchResults, thrown, httpResponse>>
  /\ UNCHANGED notChatVars

\* chat() continues after `await searchDocuments`: relevantDocs, then
\* generateAIResponse builds the prompt and calls hf.chatCompletion.
GenerateStart ==
  /\ chatPc = "retrieved"
  /\ llmCall' = ChatCompletionArgs(chatBody.message, chatBody.conversationHistory,
                                   RelevantDocs(searchResults))
  /\ callLog' = Append(callLog, "llm")
  /\ chatPc' = "generating"
  /\ UNCHANGED <<chatBody, vectorStore, searchResults, thrown, httpResponse>>
  /\ UNCHANGED notChatVars

\* The endpoint generates an id for every response.
ResponseSessionId_AlwaysFresh(requested, fresh) == fresh

\* POST: sessionId || generateSessionId()
ResponseSessionId(requested, fresh) == IF requested # "" THEN requested ELSE fresh

\* The completion arrives; generateAIResponse, chat() and POST return.
GenerateOk ==
  /\ chatPc = "generating"
  /\ \E completion \in Completions, fresh \in FreshSessionIds :
       LET response == AIResponseOf(chatBody.message, RelevantDocs(searchResults), completion)
       IN httpResponse' =
            [status |-> 200,
             body |-> [success |-> TRUE,
                       data |-> [message |-> response.message,
                                 sources |-> response.sources,
                                 intent |-> response.intent,
                                 confidence |-> response.confidence,
                                 sessionId |-> ResponseSessionId(chatBody.sessionId, fresh)]]]
  /\ callLog' = Append(callLog, "llm_ok")
  /\ chatPc' = "responded"
  /\ UNCHANGED <<chatBody, vectorStore, searchResults, llmCall, thrown>>
  /\ UNCHANGED notChatVars

\* hf.chatCompletion throws; generateChatResponse calls it again (a bounded
\* number of times).
GenerateFails_Retry ==
  /\ chatPc = "generating"
  /\ Len(callLog) < 9
  /\ callLog' = callLog \o <<"llm_failed", "llm">>
  /\ UNCHANGED <<chatPc, chatBody, vectorStore, searchResults, llmCall, thrown, httpResponse>>
  /\ UNCHANGED notChatVars

\* hf.chatCompletion throws; generateChatResponse logs and rethrows.
GenerateFails ==
  /\ chatPc = "generating"
  /\ \E error \in ThrownValues : Fail(error, "llm_failed")
  /\ UNCHANGED <<chatBody, vectorStore, searchResults, llmCall>>
  /\ UNCHANGED notChatVars

ChatNext ==
  \/ ChatPost
  \/ EmbedOk
  \/ EmbedFails
  \/ QueryOk
  \/ QueryFails
  \/ GenerateStart
  \/ GenerateOk
  \/ GenerateFails

\* ------------------------------------------- document sync and the index
\* POST /api/ai/sync-docs, ensureIndexExists, storeDocumentEmbedding and
\* searchDocuments, against a Pinecone index and the Hugging Face embedding.

EMBEDDING_DIMENSION == 384

\* The wait after createIndex, 30000 ms, in ticks of 10 s.
WaitTicks == 3

\* article.content.replace(/<[^>]*>/g, " ").slice(0, 2000)
ContentSlice == 2000

\* doc.content.slice(0, 1000)
MetadataSlice == 1000

\* The delay between two documents, in ms.
ThrottleMs == 200

\* getArticles(100, 0)
SyncLimit == 100

\* The articles the CMS can hold: with excerpt and an HTML body, with a title
\* only, and with nothing that yields text.
SyncArticlePool ==
  { [uid |-> "s1", title |-> <<"R","e","s","e","t">>, slug |-> "reset", excerpt |-> <<"H","o","w"," ","t","o">>,
     content |-> <<"<","p",">","C","l","i","c","k"," ","<","b",">","h","e","r","e","<","/","b",">","<","/","p",">">>, category |-> <<"A","c","c","o","u","n","t">>],
    [uid |-> "s2", title |-> <<"B","i","l","l","i","n","g">>, slug |-> "billing", excerpt |-> <<>>,
     content |-> <<>>, category |-> <<>>],
    [uid |-> "s3", title |-> <<>>, slug |-> "untitled", excerpt |-> <<>>,
     content |-> <<>>, category |-> <<>>] }

\* The entries of the CMS, newest first: distinct articles.
CmsContents ==
  {as \in UNION {[1..n -> SyncArticlePool] : n \in 0..MaxArticles} :
     \A i, j \in 1..Len(as) : as[i] = as[j] => i = j}

\* String.prototype.slice(0, n)
SliceTo(s, n) == SubSeq(s, 1, Min(n, Len(s)))

RECURSIVE StripHtml(_)
\* replace(/<[^>]*>/g, " "): every "<" up to the next ">" becomes one space
StripHtml(s) ==
  IF Len(s) = 0 THEN <<>>
  ELSE IF s[1] = "<" /\ \E j \in 2..Len(s) : s[j] = ">"
  THEN LET close == CHOOSE j \in 2..Len(s) : s[j] = ">" /\ \A k \in 2..(j - 1) : s[k] # ">"
       IN <<" ">> \o StripHtml(SubSeq(s, close + 1, Len(s)))
  ELSE <<s[1]>> \o StripHtml(Tail(s))

\* Array.prototype.filter(Boolean) on strings: the non-empty ones
FilterBoolean(parts) == SelectSeq(parts, LAMBDA p : p # <<>>)

\* The text to embed: title, excerpt and stripped body, joined by blank lines.
BuildContent(article) ==
  Join(FilterBoolean(<< article.title,
                        article.excerpt,
                        IF article.content # <<>>
                        THEN SliceTo(StripHtml(article.content), ContentSlice)
                        ELSE <<>> >>),
       <<"\n", "\n">>)

\* The DocumentChunk the sync route builds for an article.
DocumentOf(article) ==
  [id |-> article.uid,
   content |-> BuildContent(article),
   metadata |-> [title |-> article.title, slug |-> article.slug,
                 category |-> article.category, contentstack_uid |-> article.uid]]

\* What hf.featureExtraction can answer: a flat vector, or rows of vectors.
\* A vector is kept as its number of components.
HfResults ==
  { [nested |-> FALSE, rows |-> <<>>, len |-> EMBEDDING_DIMENSION],
    [nested |-> TRUE, rows |-> <<EMBEDDING_DIMENSION, EMBEDDING_DIMENSION>>, len |-> 2],
    [nested |-> FALSE, rows |-> <<>>, len |-> 2 * EMBEDDING_DIMENSION] }

\* generateEmbedding: the first row of a nested answer, else the answer itself
Flatten(result) ==
  IF result.nested /\ Len(result.rows) > 0 THEN result.rows[1] ELSE result.len

\* The record storeDocumentEmbedding upserts.
VectorOf(doc, values) ==
  [id |-> doc.id,
   values |-> values,
   metadata |-> [title |-> doc.metadata.title, slug |-> doc.metadata.slug,
                 category |-> doc.metadata.category,
                 contentstack_uid |-> doc.metadata.contentstack_uid,
                 content |-> SliceTo(doc.content, MetadataSlice)]]

\* The index "support-docs" at Pinecone.
NoIndex == [status |-> "absent", dimension |-> 0, creationLeft |-> 0]

ReadyIndex == [status |-> "ready", dimension |-> EMBEDDING_DIMENSION, creationLeft |-> 0]

\* No index is ever taken to be listed.
IndexExists_Never(index) == FALSE

\* indexes.indexes?.some((idx) => idx.name === INDEX_NAME)
IndexExists(index) == index.status # "absent"

\* An index serves upserts and queries once its creation has finished.
Serves(index) == index.status = "ready"

\* The passing of ticks at the server while an index is being created.
Elapse(index, ticks) ==
  IF index.status # "initializing" THEN index
  ELSE IF index.creationLeft <= ticks
  THEN [index EXCEPT !.status = "ready", !.creationLeft = 0]
  ELSE [index EXCEPT !.creationLeft = @ - ticks]

\* upsert adds a record beside the ones the namespace holds.
Upsert_Insert(ns, vector) == ns (+) SetToBag({vector})

\* upsert: the record replaces the ones of the same id, or is added. The
\* namespace is a bag of records.
Upsert(ns, vector) ==
  [r \in {r \in BagToSet(ns) : r.id # vector.id} |-> ns[r]] (+) SetToBag({vector})

\* What the calls of the sync can throw.
HfError == <<"M","o","d","e","l"," ","i","s"," ","l","o","a","d","i","n","g">>

PineconeError == <<"R","e","q","u","e","s","t"," ","f","a","i","l","e","d">>

NotReadyError == <<"I","n","d","e","x"," ","n","o","t"," ","r","e","a","d","y">>

DimensionError == <<"V","e","c","t","o","r"," ","d","i","m","e","n","s","i","o","n"," ","d","o","e","s"," ","n","o","t"," ","m","a","t","c","h">>

CallEntry(call, id, arg) == [call |-> call, id |-> id, arg |-> arg]

NoSyncResponse == [status |-> 0, body |-> [success |-> FALSE]]

\* The sync route's outer catch.
SyncFailure(message_) ==
  [status |-> 500, body |-> [success |-> FALSE, error |-> message_]]

\* errors.push(`${article.title}: ${errorMsg}`)
ErrorLine(article, errorMsg) == article.title \o <<":", " ">> \o errorMsg

\* What a finished run leaves behind, for the runs after it.
RunRecord(response, ns) ==
  [status |-> response.status,
   synced |-> IF "synced" \in DOMAIN response.body THEN response.body.synced ELSE 0,
   ids |-> {r.id : r \in BagToSet(ns)},
   count |-> BagCardinality(ns)]

SyncInit ==
  /\ syncPc = "request"
  /\ cmsArticles \in CmsContents
  /\ pineconeIndex \in {NoIndex, ReadyIndex}
  /\ namespace = EmptyBag
  /\ indexExists = FALSE
  /\ articles = <<>>
  /\ cursor = 0
  /\ synced = 0
  /\ errors = <<>>
  /\ embedding = 0
  /\ syncLog = <<>>
  /\ createLog = <<>>
  /\ runs = 0
  /\ runHistory = <<>>
  /\ syncResponse = NoSyncResponse

SyncIdle ==
  /\ syncPc = "idle"
  /\ cmsArticles = <<>>
  /\ pineconeIndex = NoIndex
  /\ namespace = EmptyBag
  /\ indexExists = FALSE
  /\ articles = <<>>
  /\ cursor = 0
  /\ synced = 0
  /\ errors = <<>>
  /\ embedding = 0
  /\ syncLog = <<>>
  /\ createLog = <<>>
  /\ runs = 0
  /\ runHistory = <<>>
  /\ syncResponse = NoSyncResponse

\* The route answers: the response and what the run leaves behind.
SyncAnswer(response) ==
  /\ syncResponse' = response
  /\ runHistory' = Append(runHistory, RunRecord(response, namespace))
  /\ runs' = runs + 1
  /\ syncPc' = "responded"

\* POST: ensureIndexExists starts by listing the indexes.
SyncPost ==
  /\ syncPc = "request"
  /\ syncLog' = Append(syncLog, CallEntry("listIndexes", "", 0))
  /\ syncPc' = "listing"
  /\ UNCHANGED <<cmsArticles, pineconeIndex, namespace, indexExists, articles, cursor,
                 synced, errors, embedding, createLog, runs, runHistory, syncResponse>>
  /\ UNCHANGED notSyncVars

\* listIndexes answers: createIndex when "support-docs" is not listed,
\* otherwise ensureIndexExists returns and the route calls getArticles.
EnsureListed ==
  /\ syncPc = "listing"
  /\ indexExists' = IndexExists(pineconeIndex)
  /\ IF ~IndexExists(pineconeIndex)
     THEN /\ syncLog' = Append(syncLog, CallEntry("createIndex", "", EMBEDDING_DIMENSION))
          /\ createLog' = Append(createLog, "issued")
          /\ syncPc' = "creating"
     ELSE /\ syncLog' = Append(syncLog, CallEntry("getArticles", "", SyncLimit))
          /\ syncPc' = "fetching"
          /\ UNCHANGED createLog
  /\ UNCHANGED <<cmsArticles, pineconeIndex, namespace, articles, cursor, synced, errors,
                 embedding, runs, runHistory, syncResponse>>
  /\ UNCHANGED notSyncVars

\* listIndexes throws: the route's outer catch answers 500.
EnsureListThrows ==
  /\ syncPc = "listing"
  /\ SyncAnswer(SyncFailure(PineconeError))
  /\ UNCHANGED <<cmsArticles, pineconeIndex, namespace, indexExists, articles, cursor,
                 synced, errors, embedding, syncLog, createLog>>
  /\ UNCHANGED notSyncVars

\* createIndex returns: the server starts creating the index, which takes it
\* some time; ensureIndexExists starts its wait.
CreateIndexOk ==
  /\ syncPc = "creating"
  /\ \E ticks \in 1..MaxCreationTicks :
       pineconeIndex' = [status |-> "initializing", dimension |-> EMBEDDING_DIMENSION,
                         creationLeft |-> ticks]
  /\ createLog' = [createLog EXCEPT ![Len(createLog)] = "created"]
  /\ syncPc' = "waiting"
  /\ UNCHANGED <<cmsArticles, namespace, indexExists, articles, cursor, synced, errors,
                 embedding, syncLog, runs, runHistory, syncResponse>>
  /\ UNCHANGED notSyncVars

\* createIndex throws: no index, and the route's outer catch answers 500.
CreateIndexThrows ==
  /\ syncPc = "creating"
  /\ createLog' = [createLog EXCEPT ![Len(createLog)] = "failed"]
  /\ SyncAnswer(SyncFailure(PineconeError))
  /\ UNCHANGED <<cmsArticles, pineconeIndex, namespace, indexExists, articles, cursor,
                 synced, errors, embedding, syncLog>>
  /\ UNCHANGED notSyncVars

\* The 30 s of setTimeout pass; ensureIndexExists returns and the route calls
\* getArticles.
EnsureWaited ==
  /\ syncPc = "waiting"
  /\ pineconeIndex' = Elapse(pineconeIndex, WaitTicks)
  /\ syncLog' = Append(syncLog, CallEntry("getArticles", "", SyncLimit))
  /\ syncPc' = "fetching"
  /\ UNCHANGED <<cmsArticles, namespace, indexExists, articles, cursor, synced, errors,
                 embedding, createLog, runs, runHistory, syncResponse>>
  /\ UNCHANGED notSyncVars

\* The server finishes the creation of the index, whatever the route does.
IndexBecomesReady ==
  /\ syncPc \notin {"idle", "creating", "waiting"}
  /\ pineconeIndex.status = "initializing"
  /\ pineconeIndex' = Elapse(pineconeIndex, pineconeIndex.creationLeft)
  /\ UNCHANGED <<syncPc, cmsArticles, namespace, indexExists, articles, cursor, synced,
                 errors, embedding, syncLog, createLog, runs, runHistory, syncResponse>>
  /\ UNCHANGED notSyncVars

\* The route leaves the loop when a document fails.
RecordFailure_Abort(errorMsg) ==
  /\ SyncAnswer(SyncFailure(errorMsg))
  /\ UNCHANGED <<errors, cursor>>

\* The loop's catch: the error is recorded and the loop goes on.
RecordFailure(errorMsg) ==
  /\ errors' = Append(errors, ErrorLine(articles[cursor], errorMsg))
  /\ cursor' = cursor + 1
  /\ syncPc' = "loop"
  /\ UNCHANGED <<syncResponse, runHistory, runs>>

\* getArticles returns the CMS entries; with none the route answers at once,
\* otherwise the loop starts.
GetArticlesOk ==
  /\ syncPc = "fetching"
  /\ articles' = SliceTo(cmsArticles, SyncLimit)
  /\ IF Len(articles') = 0
     THEN /\ SyncAnswer([status |-> 200,
                         body |-> [success |-> TRUE, message |-> "No articles found to sync",
                                   synced |-> 0]])
          /\ UNCHANGED cursor
     ELSE /\ cursor' = 1
          /\ syncPc' = "loop"
          /\ UNCHANGED <<syncResponse, runHistory, runs>>
  /\ synced' = 0
  /\ errors' = <<>>
  /\ UNCHANGED <<cmsArticles, pineconeIndex, namespace, indexExists, embedding, syncLog,
                 createLog>>
  /\ UNCHANGED notSyncVars

\* The CMS query throws: getArticles catches and returns no articles.
GetArticlesFails ==
  /\ syncPc = "fetching"
  /\ articles' = <<>>
  /\ SyncAnswer([status |-> 200,
                 body |-> [success |-> TRUE, message |-> "No articles found to sync",
                           synced |-> 0]])
  /\ synced' = 0
  /\ errors' = <<>>
  /\ UNCHANGED <<cmsArticles, pineconeIndex, namespace, indexExists, cursor, embedding,
                 syncLog, createLog>>
  /\ UNCHANGED notSyncVars

\* The loop takes the next article, builds its document and calls
\* storeDocumentEmbedding, which asks for the embedding of the content.
SyncNextArticle ==
  /\ syncPc = "loop"
  /\ cursor <= Len(articles)
  /\ LET doc == DocumentOf(articles[cursor])
     IN syncLog' = Append(syncLog, CallEntry("featureExtraction", doc.id, Len(doc.content)))
  /\ syncPc' = "embedding"
  /\ UNCHANGED <<cmsArticles, pineconeIndex, namespace, indexExists, articles, cursor,
                 synced, errors, embedding, createLog, runs, runHistory, syncResponse>>
  /\ UNCHANGED notSyncVars

\* The embedding arrives; storeDocumentEmbedding upserts the record.
StoreEmbedOk ==
  /\ syncPc = "embedding"
  /\ \E result \in HfResults : embedding' = Flatten(result)
  /\ syncLog' = Append(syncLog, CallEntry("upsert", articles[cursor].uid, embedding'))
  /\ syncPc' = "upserting"
  /\ UNCHANGED <<cmsArticles, pineconeIndex, namespace, indexExists, articles, cursor,
                 synced, errors, createLog, runs, runHistory, syncResponse>>
  /\ UNCHANGED notSyncVars

\* hf.featureExtraction throws.
StoreEmbedThrows ==
  /\ syncPc = "embedding"
  /\ RecordFailure(HfError)
  /\ UNCHANGED <<cmsArticles, pineconeIndex, namespace, indexExists, articles, synced,
                 embedding, syncLog, createLog>>
  /\ UNCHANGED notSyncVars

\* The index takes the record as storeDocumentEmbedding sent it, whatever the
\* length of the vector; synced++, the route waits its 200 ms and the loop
\* goes on.
UpsertOk ==
  /\ syncPc = "upserting"
  /\ Serves(pineconeIndex)
  /\ namespace' = Upsert(namespace, VectorOf(DocumentOf(articles[cursor]), embedding))
  /\ synced' = synced + 1
  /\ syncLog' = Append(syncLog, CallEntry("setTimeout", articles[cursor].uid, ThrottleMs))
  /\ cursor' = cursor + 1
  /\ syncPc' = "loop"
  /\ UNCHANGED <<cmsArticles, pineconeIndex, indexExists, articles, errors, embedding,
                 createLog, runs, runHistory, syncResponse>>
  /\ UNCHANGED notSyncVars

\* upsert throws: the index is not there yet, the store turns the vector
\* down for its length, or the request fails.
UpsertThrows ==
  /\ syncPc = "upserting"
  /\ RecordFailure(IF ~Serves(pineconeIndex) THEN NotReadyError
                   ELSE IF embedding # pineconeIndex.dimension THEN DimensionError
                   ELSE PineconeError)
  /\ UNCHANGED <<cmsArticles, pineconeIndex, namespace, indexExists, articles, synced,
                 embedding, syncLog, createLog>>
  /\ UNCHANGED notSyncVars

\* The loop is through: the route answers with the counts.
SyncRespond ==
  /\ syncPc = "loop"
  /\ cursor > Len(articles)
  /\ SyncAnswer([status |-> 200,
                 body |-> [success |-> TRUE, synced |-> synced, total |-> Len(articles),
                           errors |-> errors]])
  /\ UNCHANGED <<cmsArticles, pineconeIndex, namespace, indexExists, articles, cursor,
                 synced, errors, embedding, syncLog, createLog>>
  /\ UNCHANGED notSyncVars

\* The sync is requested again, the CMS being as it was.
SyncAgain ==
  /\ syncPc = "responded"
  /\ runs < MaxRuns
  /\ syncPc' = "request"
  /\ syncLog' = <<>>
  /\ syncResponse' = NoSyncResponse
  /\ indexExists' = FALSE
  /\ articles' = <<>>
  /\ cursor' = 0
  /\ synced' = 0
  /\ errors' = <<>>
  /\ embedding' = 0
  /\ runHistory' = <<runHistory[Len(runHistory)]>>
  /\ UNCHANGED <<cmsArticles, pineconeIndex, namespace, createLog, runs>>
  /\ UNCHANGED notSyncVars

SyncNext ==
  \/ SyncPost
  \/ EnsureListed
  \/ EnsureListThrows
  \/ CreateIndexOk
  \/ CreateIndexThrows
  \/ EnsureWaited
  \/ IndexBecomesReady
  \/ GetArticlesOk
  \/ GetArticlesFails
  \/ SyncNextArticle
  \/ StoreEmbedOk
  \/ StoreEmbedThrows
  \/ UpsertOk
  \/ UpsertThrows
  \/ SyncRespond
  \/ SyncAgain

\* ----------------------------------------------- personalized recommendations
\* PersonalizedRecommendations.loadRecommendations, in its two versions:
\* components/PersonalizedRecommendations.tsx ("enriched") and part_008
\* ("checked", which tests fullArticles.length before showing).

\* The uids of the published CMS articles, and the featured ones.
CmsRecUids == {"a", "b"}

FeaturedLists == { <<>>, <<"f1", "f2">> }

\* The contentstack_uid of each recommendation the CDP holds for the user:
\* of a published article, of none, or missing.
CdpFeeds == UNION {[1..n -> {"a", "b", "gone", ""}] : n \in 0..MaxCdpRecs}

\* The position of the uid in the Map built from uids: its last occurrence.
UidOrder(uids, uid) == CHOOSE i \in 1..Len(uids) : uids[i] = uid /\ \A j \in (i + 1)..Len(uids) : uids[j] # uid

\* getArticlesByUids: the published articles among the uids, in uid order.
GetArticlesByUids(uids) ==
  LET found == CmsRecUids \cap SeqToSet(uids)
  IN IF found = {} THEN <<>>
     ELSE CHOOSE s \in [1..Cardinality(found) -> found] :
            /\ \A u \in found : \E i \in 1..Len(s) : s[i] = u
            /\ \A i, j \in 1..Len(s) : i < j => UidOrder(uids, s[i]) < UidOrder(uids, s[j])

\* lyticsRecs.map((rec) => rec.contentstack_uid).filter(Boolean)
UidsOf(recs) == SelectSeq(recs, LAMBDA u : u # "")

RecsInit ==
  /\ recPc = "mounted"
  /\ variant \in {"enriched", "checked"}
  /\ profileLoading \in BOOLEAN
  /\ profileUid \in {"", "u1"}
  /\ cdpRecs \in CdpFeeds
  /\ featuredArticles \in FeaturedLists
  /\ lyticsRecs = <<>>
  /\ recArticles = <<>>
  /\ isLoading = TRUE
  /\ isPersonalized = FALSE

RecsIdle ==
  /\ recPc = "idle"
  /\ variant = "enriched"
  /\ profileLoading = FALSE
  /\ profileUid = ""
  /\ cdpRecs = <<>>
  /\ featuredArticles = <<>>
  /\ lyticsRecs = <<>>
  /\ recArticles = <<>>
  /\ isLoading = TRUE
  /\ isPersonalized = FALSE

\* loadRecommendations starts: the CDP is asked when the profile has a uid,
\* the featured articles otherwise.
LoadStart ==
  /\ recPc = "mounted"
  /\ isLoading' = TRUE
  /\ recPc' = IF ~profileLoading /\ profileUid # "" THEN "recommendations" ELSE "featured"
  /\ UNCHANGED <<variant, profileLoading, profileUid, cdpRecs, featuredArticles, lyticsRecs,
                 recArticles, isPersonalized>>
  /\ UNCHANGED notRecsVars

\* fetchLyticsRecommendations returns: the recommendations, or [] when the
\* request failed. With none the featured articles are next.
RecsFetched ==
  /\ recPc = "recommendations"
  /\ \E recs \in {cdpRecs, <<>>} :
       /\ lyticsRecs' = recs
       /\ recPc' = IF Len(recs) > 0 THEN "articles" ELSE "featured"
  /\ UNCHANGED <<variant, profileLoading, profileUid, cdpRecs, featuredArticles, recArticles,
                 isLoading, isPersonalized>>
  /\ UNCHANGED notRecsVars

\* getArticlesByUids returns (nothing when its query failed). The enriched
\* version shows what it got; the checked version does so when it got any.
ArticlesFetched ==
  /\ recPc = "articles"
  /\ \E fullArticles \in {GetArticlesByUids(UidsOf(IF variant = "checked"
                                                     THEN SliceTo(lyticsRecs, 3)
                                                     ELSE lyticsRecs)), <<>>} :
       IF variant = "enriched" \/ Len(fullArticles) > 0
       THEN /\ recArticles' = SliceTo(fullArticles, 3)
            /\ isPersonalized' = TRUE
            /\ isLoading' = FALSE
            /\ recPc' = "done"
       ELSE /\ recPc' = "featured"
            /\ UNCHANGED <<recArticles, isPersonalized, isLoading>>
  /\ UNCHANGED <<variant, profileLoading, profileUid, cdpRecs, featuredArticles, lyticsRecs>>
  /\ UNCHANGED notRecsVars

\* A step of the personalized branch throws (the enrichment, trackEvent): the
\* catch block falls back to the featured articles.
PersonalizedThrows ==
  /\ recPc = "articles"
  /\ recPc' = "featured"
  /\ UNCHANGED <<variant, profileLoading, profileUid, cdpRecs, featuredArticles, lyticsRecs,
                 recArticles, isLoading, isPersonalized>>
  /\ UNCHANGED notRecsVars

\* getFeaturedArticles returns (nothing when its query failed).
FeaturedFetched ==
  /\ recPc = "featured"
  /\ \E featured \in {featuredArticles, <<>>} : recArticles' = featured
  /\ isPersonalized' = FALSE
  /\ isLoading' = FALSE
  /\ recPc' = "done"
  /\ UNCHANGED <<variant, profileLoading, profileUid, cdpRecs, featuredArticles, lyticsRecs>>
  /\ UNCHANGED notRecsVars

RecsNext ==
  \/ LoadStart
  \/ RecsFetched
  \/ ArticlesFetched
  \/ PersonalizedThrows
  \/ FeaturedFetched

\* -------------------------------------------------------- AIChat component

\* What the user can have typed: nothing, blanks, or a question.
Inputs == { <<>>, <<" ">>, <<"h","i">>, <<" ","r","e","s","e","t","?"," ">> }

\* data.data.message of a successful response
Replies == { <<"O","k">> }

ErrorReply == <<"I"," ","a","p","o","l","o","g","i","z","e",","," ","b","u","t"," ","I"," ","e","n","c","o","u","n","t","e","r","e","d"," ","a","n"," ","e","r","r","o","r",".">>

\* messages.map((m) => ({role: m.role, content: m.content}))
HistoryOf(msgs) == [i \in 1..Len(msgs) |-> [role |-> msgs[i].role, content |-> msgs[i].content]]

AIChatInit ==
  /\ messages = <<>>
  /\ input = <<>>
  /\ chatLoading = FALSE
  /\ sessionId = ""
  /\ sessionSetIn = -1
  /\ inFlight = {}
  /\ conversation = 0
  /\ sends = 0
  /\ turns = <<>>

AIChatIdle ==
  /\ messages = <<>>
  /\ input = <<>>
  /\ chatLoading = TRUE
  /\ sessionId = ""
  /\ sessionSetIn = -1
  /\ inFlight = {}
  /\ conversation = MaxResets
  /\ sends = MaxSends
  /\ turns = <<>>

\* The input field's onChange and the suggestion buttons; the field is disabled
\* while a request is loading.
SetInput ==
  /\ ~chatLoading
  /\ \E text \in Inputs : input' = text
  /\ UNCHANGED <<messages, chatLoading, sessionId, sessionSetIn, inFlight, conversation,
                 sends, turns>>
  /\ UNCHANGED notAIChatVars

\* sendMessage up to its await of fetch: the request carries the messages and
\* the sessionId of the render it was called in.
SendMessage ==
  /\ ~TrimIsEmpty(input)
  /\ ~chatLoading
  /\ sends < MaxSends
  /\ messages' = Append(messages, [role |-> "user", content |-> Trim(input),
                                   conversation |-> conversation])
  /\ input' = <<>>
  /\ chatLoading' = TRUE
  /\ inFlight' = inFlight \cup
       {[id |-> sends + 1,
         message |-> Trim(input),
         conversationHistory |-> HistoryOf(messages),
         historyFrom |-> {messages[i].conversation : i \in 1..Len(messages)},
         sessionId |-> sessionId,
         sessionFrom |-> sessionSetIn,
         conversation |-> conversation]}
  /\ sends' = sends + 1
  /\ UNCHANGED <<sessionId, sessionSetIn, conversation, turns>>
  /\ UNCHANGED notAIChatVars

\* The endpoint answers success: sendMessage appends the reply and stores the
\* returned sessionId.
ResponseSuccess ==
  /\ \E request \in inFlight, reply \in Replies, fresh \in FreshSessionIds :
       LET returned == ResponseSessionId(request.sessionId, fresh)
       IN /\ messages' = Append(messages, [role |-> "assistant", content |-> reply,
                                           conversation |-> request.conversation])
          /\ sessionId' = returned
          /\ sessionSetIn' = request.conversation
          /\ turns' = Append(turns, [id |-> request.id,
                                     conversation |-> request.conversation,
                                     requested |-> request.sessionId,
                                     returned |-> returned])
          /\ inFlight' = inFlight \ {request}
  /\ chatLoading' = FALSE
  /\ UNCHANGED <<input, conversation, sends>>
  /\ UNCHANGED notAIChatVars

\* The endpoint answers an error, or fetch throws: the catch block appends the
\* apology.
ResponseFailure ==
  /\ \E request \in inFlight :
       /\ messages' = Append(messages, [role |-> "assistant", content |-> ErrorReply,
                                        conversation |-> request.conversation])
       /\ inFlight' = inFlight \ {request}
  /\ chatLoading' = FALSE
  /\ UNCHANGED <<input, sessionId, sessionSetIn, conversation, sends, turns>>
  /\ UNCHANGED notAIChatVars

\* resetChat; its button is enabled whatever isLoading is.
ResetChat ==
  /\ conversation < MaxResets
  /\ messages' = <<>>
  /\ sessionId' = ""
  /\ sessionSetIn' = -1
  /\ conversation' = conversation + 1
  /\ UNCHANGED <<input, chatLoading, inFlight, sends, turns>>
  /\ UNCHANGED notAIChatVars

AIChatNext ==
  \/ SetInput
  \/ SendMessage
  \/ ResponseSuccess
  \/ ResponseFailure
  \/ ResetChat

\* ------------------------------------------------------------- index reset

\* The reset route's waits, in ms: after deleteIndex and after createIndex (the
\* latter is WaitTicks ticks of the index's creation).
DeleteWaitMs == 5000

CreateWaitMs == 30000

\* dimension: 384 in the reset route's createIndex
ResetDimension == 384

\* An index created for another embedding model.
OtherIndex ==
  [status |-> "ready", dimension |-> 2 * EMBEDDING_DIMENSION, creationLeft |-> 0]

\* A record of the namespace, as a sync left it.
StoredRecord ==
  [id |-> "s2", values |-> EMBEDDING_DIMENSION,
   metadata |-> [title |-> <<"B","i","l","l","i","n","g">>, slug |-> "billing", category |-> "",
                 contentstack_uid |-> "s2", content |-> <<"B","i","l","l","i","n","g">>]]

NoResetResponse == [status |-> 0, body |-> [success |-> FALSE]]

\* The reset route's outer catch.
ResetFailure(message_) ==
  [status |-> 500, body |-> [success |-> FALSE, error |-> message_]]

ResetSuccess ==
  [status |-> 200,
   body |-> [success |-> TRUE, message |-> "Index recreated with dimension 384"]]

ResetInit ==
  /\ resetPc = "request"
  /\ resetLog = <<>>
  /\ resetResponse = NoResetResponse
  /\ pineconeIndex \in
       {NoIndex, ReadyIndex, OtherIndex}
         \cup {[status |-> "initializing", dimension |-> d, creationLeft |-> ticks] :
                 d \in {EMBEDDING_DIMENSION, 2 * EMBEDDING_DIMENSION},
                 ticks \in 1..MaxCreationTicks}
  /\ namespace \in IF Serves(pineconeIndex)
                   THEN {EmptyBag, SetToBag({[StoredRecord EXCEPT !.values = pineconeIndex.dimension]})}
                   ELSE {EmptyBag}
  /\ indexBefore = pineconeIndex

ResetIdle ==
  /\ resetPc = "idle"
  /\ resetLog = <<>>
  /\ resetResponse = NoResetResponse
  /\ indexBefore = NoIndex

\* POST: deleteIndex is called.
ResetPost ==
  /\ resetPc = "request"
  /\ resetLog' = Append(resetLog, CallEntry("deleteIndex", "", 0))
  /\ resetPc' = "deleting"
  /\ UNCHANGED <<resetResponse, indexBefore, pineconeIndex, namespace>>
  /\ UNCHANGED <<notIndexVars, ensureVars>>

\* deleteIndex returns: the index is being removed with its records, and the
\* route starts its 5 s wait.
ResetDeleteOk ==
  /\ resetPc = "deleting"
  /\ IndexExists(pineconeIndex)
  /\ pineconeIndex.status # "terminating"
  /\ pineconeIndex' = [pineconeIndex EXCEPT !.status = "terminating", !.creationLeft = 0]
  /\ namespace' = EmptyBag
  /\ resetLog' = Append(resetLog, CallEntry("setTimeout", "", DeleteWaitMs))
  /\ resetPc' = "deleted"
  /\ UNCHANGED <<resetResponse, indexBefore>>
  /\ UNCHANGED <<notIndexVars, ensureVars>>

\* deleteIndex throws and the route answers 500.
ResetDeleteThrows_Abort ==
  /\ resetPc = "deleting"
  /\ resetResponse' = ResetFailure(PineconeError)
  /\ resetPc' = "responded"
  /\ UNCHANGED <<resetLog, indexBefore, pineconeIndex, namespace>>
  /\ UNCHANGED <<notIndexVars, ensureVars>>

\* deleteIndex throws (there is no such index, or the request failed): the
\* inner catch logs, and the route goes on to createIndex without waiting.
ResetDeleteThrows ==
  /\ resetPc = "deleting"
  /\ resetLog' = Append(resetLog, CallEntry("createIndex", "", ResetDimension))
  /\ resetPc' = "creating"
  /\ UNCHANGED <<resetResponse, indexBefore, pineconeIndex, namespace>>
  /\ UNCHANGED <<notIndexVars, ensureVars>>

\* The server finishes the removal of the index, whatever the route does.
DeletionCompletes ==
  /\ resetPc # "idle"
  /\ pineconeIndex.status = "terminating"
  /\ pineconeIndex' = NoIndex
  /\ UNCHANGED <<resetPc, resetLog, resetResponse, indexBefore, namespace>>
  /\ UNCHANGED <<notIndexVars, ensureVars>>

\* The 5 s pass: createIndex is called.
ResetDeleteWaited ==
  /\ resetPc = "deleted"
  /\ resetLog' = Append(resetLog, CallEntry("createIndex", "", ResetDimension))
  /\ resetPc' = "creating"
  /\ UNCHANGED <<resetResponse, indexBefore, pineconeIndex, namespace>>
  /\ UNCHANGED <<notIndexVars, ensureVars>>

\* createIndex returns, which it does only when no index of the name is
\* there: the server starts creating the index and the route its 30 s wait.
ResetCreateOk ==
  /\ resetPc = "creating"
  /\ ~IndexExists(pineconeIndex)
  /\ \E ticks \in 1..MaxCreationTicks :
       pineconeIndex' = [status |-> "initializing", dimension |-> ResetDimension,
                         creationLeft |-> ticks]
  /\ resetLog' = Append(resetLog, CallEntry("setTimeout", "", CreateWaitMs))
  /\ resetPc' = "waiting"
  /\ UNCHANGED <<resetResponse, indexBefore, namespace>>
  /\ UNCHANGED <<notIndexVars, ensureVars>>

\* createIndex throws (the name is taken, or the request failed): the outer
\* catch answers 500.
ResetCreateThrows ==
  /\ resetPc = "creating"
  /\ resetResponse' = ResetFailure(PineconeError)
  /\ resetPc' = "responded"
  /\ UNCHANGED <<resetLog, indexBefore, pineconeIndex, namespace>>
  /\ UNCHANGED <<notIndexVars, ensureVars>>

\* The 30 s pass and the route answers success.
ResetWaited ==
  /\ resetPc = "waiting"
  /\ pineconeIndex' = Elapse(pineconeIndex, WaitTicks)
  /\ resetResponse' = ResetSuccess
  /\ resetPc' = "responded"
  /\ UNCHANGED <<resetLog, indexBefore, namespace>>
  /\ UNCHANGED <<notIndexVars, ensureVars>>

ResetNext ==
  \/ ResetPost
  \/ ResetDeleteOk
  \/ ResetDeleteThrows
  \/ DeletionCompletes
  \/ ResetDeleteWaited
  \/ ResetCreateOk
  \/ ResetCreateThrows
  \/ ResetWaited

\* ------------------------------------- overlapping ensureIndexExists calls

\* The two invocations.
Invocations == {1, 2}

EnsureInit ==
  /\ ensurePc = [p \in Invocations |-> "call"]
  /\ ensureLog = <<>>
  /\ pineconeIndex \in {NoIndex, ReadyIndex}
  /\ namespace = EmptyBag

EnsureIdle ==
  /\ ensurePc = [p \in Invocations |-> "idle"]
  /\ ensureLog = <<>>

\* ensureIndexExists is called and calls listIndexes.
EnsureCall(p) ==
  /\ ensurePc[p] = "call"
  /\ ensureLog' = Append(ensureLog, [call |-> "listIndexes", by |-> p])
  /\ ensurePc' = [ensurePc EXCEPT ![p] = "listing"]
  /\ UNCHANGED <<pineconeIndex, namespace>>
  /\ UNCHANGED <<notIndexVars, resetVars>>

\* listIndexes answers: createIndex when the index is not listed, otherwise
\* ensureIndexExists returns.
EnsureList(p) ==
  /\ ensurePc[p] = "listing"
  /\ IF ~IndexExists(pineconeIndex)
     THEN /\ ensureLog' = Append(ensureLog, [call |-> "createIndex", by |-> p])
          /\ ensurePc' = [ensurePc EXCEPT ![p] = "creating"]
     ELSE /\ ensurePc' = [ensurePc EXCEPT ![p] = "returned"]
          /\ UNCHANGED ensureLog
  /\ UNCHANGED <<pineconeIndex, namespace>>
  /\ UNCHANGED <<notIndexVars, resetVars>>

\* createIndex returns, which it does only when no index of the name is there.
EnsureCreateOk(p) ==
  /\ ensurePc[p] = "creating"
  /\ ~IndexExists(pineconeIndex)
  /\ \E ticks \in 1..MaxCreationTicks :
       pineconeIndex' = [status |-> "initializing", dimension |-> EMBEDDING_DIMENSION,
                         creationLeft |-> ticks]
  /\ ensurePc' = [ensurePc EXCEPT ![p] = "waiting"]
  /\ UNCHANGED <<ensureLog, namespace>>
  /\ UNCHANGED <<notIndexVars, resetVars>>

\* createIndex throws because the name is taken: the other invocation's
\* createIndex came first. ensureIndexExists throws.
EnsureCreateConflict(p) ==
  /\ ensurePc[p] = "creating"
  /\ IndexExists(pineconeIndex)
  /\ ensurePc' = [ensurePc EXCEPT ![p] = "thrown"]
  /\ UNCHANGED <<ensureLog, pineconeIndex, namespace>>
  /\ UNCHANGED <<notIndexVars, resetVars>>

\* The 30 s pass, for the server as well, and ensureIndexExists returns.
EnsureReturn(p) ==
  /\ ensurePc[p] = "waiting"
  /\ pineconeIndex' = Elapse(pineconeIndex, WaitTicks)
  /\ ensurePc' = [ensurePc EXCEPT ![p] = "returned"]
  /\ UNCHANGED <<ensureLog, namespace>>
  /\ UNCHANGED <<notIndexVars, resetVars>>

EnsureCalls == \E p \in Invocations : EnsureCall(p)

EnsureLists == \E p \in Invocations : EnsureList(p)

EnsureCreatesOk == \E p \in Invocations : EnsureCreateOk(p)

EnsureCreatesConflict == \E p \in Invocations : EnsureCreateConflict(p)

EnsureReturns == \E p \in Invocations : EnsureReturn(p)

EnsureNext ==
  \/ EnsureCalls
  \/ EnsureLists
  \/ EnsureCreatesOk
  \/ EnsureCreatesConflict
  \/ EnsureReturns

\* ------------------------------------------------------- Personalize SDK

Callers == 1..MaxCallers

NotCalled == [kind |-> "none", of |-> 0, inFlight |-> {}]

SdkInit ==
  /\ configured \in BOOLEAN
  /\ sdkInstance = 0
  /\ initializationPromise = 0
  /\ inits = <<>>
  /\ received = [c \in Callers |-> NotCalled]

SdkIdle ==
  /\ configured = FALSE
  /\ sdkInstance = 0
  /\ initializationPromise = 0
  /\ inits = <<>>
  /\ received = [c \in Callers |-> [kind |-> "null", of |-> 0, inFlight |-> {}]]

\* The invocations of Personalize.init that have not settled.
Pending == {i \in 1..Len(inits) : inits[i] = "pending"}

\* initPersonalize starts an initialization whatever initializationPromise is.
InitPersonalize_Unguarded(c) ==
  /\ received[c] = NotCalled
  /\ IF ~configured
     THEN /\ received' = [received EXCEPT ![c] = [kind |-> "null", of |-> 0, inFlight |-> Pending]]
          /\ UNCHANGED <<initializationPromise, inits>>
     ELSE IF sdkInstance # 0
     THEN /\ received' = [received EXCEPT ![c] = [kind |-> "instance", of |-> sdkInstance, inFlight |-> Pending]]
          /\ UNCHANGED <<initializationPromise, inits>>
     ELSE /\ inits' = Append(inits, "pending")
          /\ initializationPromise' = Len(inits) + 1
          /\ received' = [received EXCEPT ![c] = [kind |-> "promise", of |-> Len(inits) + 1, inFlight |-> Pending]]
  /\ UNCHANGED <<configured, sdkInstance>>
  /\ UNCHANGED notSdkVars

\* initPersonalize, which runs to its return without yielding: null on the
\* server or without a project uid, the instance when there is one, the
\* promise when an initialization is in progress; otherwise the async block
\* runs up to its await, having called Personalize.init, and its promise is
\* stored and returned.
InitPersonalize(c) ==
  /\ received[c] = NotCalled
  /\ IF ~configured
     THEN /\ received' = [received EXCEPT ![c] = [kind |-> "null", of |-> 0, inFlight |-> Pending]]
          /\ UNCHANGED <<initializationPromise, inits>>
     ELSE IF sdkInstance # 0
     THEN /\ received' = [received EXCEPT ![c] = [kind |-> "instance", of |-> sdkInstance, inFlight |-> Pending]]
          /\ UNCHANGED <<initializationPromise, inits>>
     ELSE IF initializationPromise # 0
     THEN /\ received' = [received EXCEPT ![c] = [kind |-> "promise", of |-> initializationPromise, inFlight |-> Pending]]
          /\ UNCHANGED <<initializationPromise, inits>>
     ELSE /\ inits' = Append(inits, "pending")
          /\ initializationPromise' = Len(inits) + 1
          /\ received' = [received EXCEPT ![c] = [kind |-> "promise", of |-> Len(inits) + 1, inFlight |-> Pending]]
  /\ UNCHANGED <<configured, sdkInstance>>
  /\ UNCHANGED notSdkVars

\* Personalize.init resolves: the async block stores the instance.
InitResolves(i) ==
  /\ inits[i] = "pending"
  /\ inits' = [inits EXCEPT ![i] = "resolved"]
  /\ sdkInstance' = i
  /\ UNCHANGED <<configured, initializationPromise, received>>
  /\ UNCHANGED notSdkVars

\* Personalize.init rejects: the catch clears initializationPromise.
InitRejects(i) ==
  /\ inits[i] = "pending"
  /\ inits' = [inits EXCEPT ![i] = "rejected"]
  /\ initializationPromise' = 0
  /\ UNCHANGED <<configured, sdkInstance, received>>
  /\ UNCHANGED notSdkVars

SdkCalled == \E c \in Callers : InitPersonalize(c)

SdkResolved == \E i \in 1..Len(inits) : InitResolves(i)

SdkRejected == \E i \in 1..Len(inits) : InitRejects(i)

SdkNext ==
  \/ SdkCalled
  \/ SdkResolved
  \/ SdkRejected

\* ------------------------------------------- search modal while typing

\* What the user can have in the search field.
TypedQueries == { <<>>, <<"r","e","s","e","t">>, <<"l","o","g","i","n">> }

\* What the CMS finds for a query.
FoundFor(searchQuery) ==
  IF searchQuery = <<"r","e","s","e","t">> THEN <<ArticleA>>
  ELSE IF searchQuery = <<"l","o","g","i","n">> THEN <<ArticleB>>
  ELSE <<>>

NoTimer == [set |-> FALSE, searchQuery |-> <<>>]

\* performSearch of a blank query, which answers at once.
BlankSearch == [id |-> 0, answered |-> TRUE, answer |-> <<>>, boosted |-> FALSE]

TypingInit ==
  /\ isOpen = TRUE
  /\ modalQuery = <<>>
  /\ debounceTimer = NoTimer
  /\ searchesInFlight = {}
  /\ keystrokes = 0
  /\ latest = BlankSearch
  /\ modalPc = "idle"
  /\ searchKind = "none"
  /\ userAffinities \in {<<>>, <<[topic |-> TopicApi, affinity |-> Rat(9, 10)]>>}
  /\ isBoosted = FALSE
  /\ results = <<>>

TypingIdle ==
  /\ isOpen = FALSE
  /\ modalQuery = <<>>
  /\ debounceTimer = NoTimer
  /\ searchesInFlight = {}
  /\ keystrokes = MaxKeystrokes
  /\ latest = BlankSearch

\* The input's onChange: setQuery; the debounce effect clears the timer of the
\* previous query and sets one for the new.
TypeQuery ==
  /\ isOpen
  /\ keystrokes < MaxKeystrokes
  /\ \E text \in TypedQueries \ {modalQuery} :
       /\ modalQuery' = text
       /\ debounceTimer' = [set |-> TRUE, searchQuery |-> text]
  /\ keystrokes' = keystrokes + 1
  /\ UNCHANGED <<isOpen, searchesInFlight, latest>>
  /\ UNCHANGED <<modalPc, userAffinities, isBoosted, results, searchKind>>
  /\ UNCHANGED besideModalVars

\* The timer fires: performSearch(query). A blank query clears the results at
\* once; any other starts the search the affinities call for and awaits it.
TimerFires ==
  /\ debounceTimer.set
  /\ debounceTimer' = NoTimer
  /\ IF TrimIsEmpty(debounceTimer.searchQuery)
     THEN /\ results' = <<>>
          /\ isBoosted' = FALSE
          /\ latest' = BlankSearch
          /\ UNCHANGED searchesInFlight
     ELSE /\ searchesInFlight' = searchesInFlight \cup
               {[id |-> keystrokes, searchQuery |-> debounceTimer.searchQuery,
                 boosted |-> Len(userAffinities) > 0]}
          /\ latest' = [id |-> keystrokes, answered |-> FALSE, answer |-> <<>>,
                        boosted |-> Len(userAffinities) > 0]
          /\ UNCHANGED <<results, isBoosted>>
  /\ UNCHANGED <<isOpen, modalQuery, keystrokes>>
  /\ UNCHANGED <<modalPc, userAffinities, searchKind>>
  /\ UNCHANGED besideModalVars

\* A search returns (what the CMS found, or [] after an error it caught):
\* performSearch sets isBoosted and the results.
SearchCompletes ==
  /\ \E search \in searchesInFlight, found \in {TRUE, FALSE} :
       LET answer == IF found THEN FoundFor(search.searchQuery) ELSE <<>>
       IN /\ results' = answer
          /\ isBoosted' = search.boosted
          /\ searchesInFlight' = searchesInFlight \ {search}
          /\ latest' = IF search.id = latest.id
                       THEN [latest EXCEPT !.answered = TRUE, !.answer = answer]
                       ELSE latest
  /\ UNCHANGED <<isOpen, modalQuery, debounceTimer, keystrokes>>
  /\ UNCHANGED <<modalPc, userAffinities, searchKind>>
  /\ UNCHANGED besideModalVars

\* The modal is closed: setQuery(""), setResults([]); the debounce effect
\* runs for the changed query.
CloseModal ==
  /\ isOpen
  /\ keystrokes < MaxKeystrokes
  /\ isOpen' = FALSE
  /\ modalQuery' = <<>>
  /\ results' = <<>>
  /\ debounceTimer' = IF modalQuery # <<>> THEN [set |-> TRUE, searchQuery |-> <<>>]
                      ELSE debounceTimer
  /\ keystrokes' = keystrokes + 1
  /\ UNCHANGED <<searchesInFlight, latest>>
  /\ UNCHANGED <<modalPc, userAffinities, isBoosted, searchKind>>
  /\ UNCHANGED besideModalVars

\* The modal is opened again.
OpenModal ==
  /\ ~isOpen
  /\ isOpen' = TRUE
  /\ UNCHANGED <<modalQuery, debounceTimer, searchesInFlight, keystrokes, latest>>
  /\ UNCHANGED <<modalPc, userAffinities, isBoosted, results, searchKind>>
  /\ UNCHANGED besideModalVars

TypingNext ==
  \/ TypeQuery
  \/ TimerFires
  \/ SearchCompletes
  \/ CloseModal
  \/ OpenModal

\* -------------------------------------------------------- specifications

InitIntent ==
  /\ IntentInit
  /\ AffIdle
  /\ BoostIdle
  /\ ChatIdle
  /\ SyncIdle
  /\ ModalIdle
  /\ RecsIdle
  /\ AIChatIdle
  /\ ResetIdle
  /\ EnsureIdle
  /\ SdkIdle
  /\ TypingIdle

SpecIntent == InitIntent /\ [][IntentNext]_vars

InitAffinity ==
  /\ AffInit
  /\ IntentIdle
  /\ BoostIdle
  /\ ChatIdle
  /\ SyncIdle
  /\ ModalIdle
  /\ RecsIdle
  /\ AIChatIdle
  /\ ResetIdle
  /\ EnsureIdle
  /\ SdkIdle
  /\ TypingIdle

SpecAffinity == InitAffinity /\ [][AffNext]_vars

InitBoost ==
  /\ BoostInit
  /\ IntentIdle
  /\ AffIdle
  /\ ChatIdle
  /\ SyncIdle
  /\ ModalIdle
  /\ RecsIdle
  /\ AIChatIdle
  /\ ResetIdle
  /\ EnsureIdle
  /\ SdkIdle
  /\ TypingIdle

SpecBoost == InitBoost /\ [][BoostNext]_vars

InitChat ==
  /\ ChatInit
  /\ IntentIdle
  /\ AffIdle
  /\ BoostIdle
  /\ SyncIdle
  /\ ModalIdle
  /\ RecsIdle
  /\ AIChatIdle
  /\ ResetIdle
  /\ EnsureIdle
  /\ SdkIdle
  /\ TypingIdle

SpecChat == InitChat /\ [][ChatNext]_vars

InitSync ==
  /\ SyncInit
  /\ IntentIdle
  /\ AffIdle
  /\ BoostIdle
  /\ ChatIdle
  /\ ModalIdle
  /\ RecsIdle
  /\ AIChatIdle
  /\ ResetIdle
  /\ EnsureIdle
  /\ SdkIdle
  /\ TypingIdle

SpecSync == InitSync /\ [][SyncNext]_vars

\* The modal searches, or searchArticlesWithBoost is called directly.
InitModal ==
  /\ \/ ModalInit
     \/ ModalIdle /\ BoostInit
  /\ IntentIdle
  /\ AffIdle
  /\ ChatIdle
  /\ SyncIdle
  /\ RecsIdle
  /\ AIChatIdle
  /\ ResetIdle
  /\ EnsureIdle
  /\ SdkIdle
  /\ TypingIdle

SpecModal == InitModal /\ [][ModalNext]_vars

InitRecs ==
  /\ RecsInit
  /\ IntentIdle
  /\ AffIdle
  /\ BoostIdle
  /\ ChatIdle
  /\ SyncIdle
  /\ ModalIdle
  /\ AIChatIdle
  /\ ResetIdle
  /\ EnsureIdle
  /\ SdkIdle
  /\ TypingIdle

SpecRecs == InitRecs /\ [][RecsNext]_vars

InitAIChat ==
  /\ AIChatInit
  /\ IntentIdle
  /\ AffIdle
  /\ BoostIdle
  /\ ChatIdle
  /\ SyncIdle
  /\ ModalIdle
  /\ RecsIdle
  /\ ResetIdle
  /\ EnsureIdle
  /\ SdkIdle
  /\ TypingIdle

SpecAIChat == InitAIChat /\ [][AIChatNext]_vars

\* The sync route is not running; the index and its namespace are there.
SyncRestIdle ==
  /\ syncPc = "idle"
  /\ cmsArticles = <<>>
  /\ indexExists = FALSE
  /\ articles = <<>>
  /\ cursor = 0
  /\ synced = 0
  /\ errors = <<>>
  /\ embedding = 0
  /\ syncLog = <<>>
  /\ createLog = <<>>
  /\ runs = 0
  /\ runHistory = <<>>
  /\ syncResponse = NoSyncResponse

InitReset ==
  /\ ResetInit
  /\ SyncRestIdle
  /\ EnsureIdle
  /\ IntentIdle
  /\ AffIdle
  /\ BoostIdle
  /\ ChatIdle
  /\ ModalIdle
  /\ RecsIdle
  /\ AIChatIdle
  /\ SdkIdle
  /\ TypingIdle

SpecReset == InitReset /\ [][ResetNext]_vars

InitEnsure ==
  /\ EnsureInit
  /\ SyncRestIdle
  /\ ResetIdle
  /\ IntentIdle
  /\ AffIdle
  /\ BoostIdle
  /\ ChatIdle
  /\ ModalIdle
  /\ RecsIdle
  /\ AIChatIdle
  /\ SdkIdle
  /\ TypingIdle

SpecEnsure == InitEnsure /\ [][EnsureNext]_vars

\* searchArticlesWithBoost over a large CMS, with no affinity or one.
InitMany ==
  /\ boostPc = "call"
  /\ query \in Queries
  /\ userTopicAffinities \in {<<>>, <<[topic |-> TopicApi, affinity |-> Rat(9, 10)]>>}
  /\ titleResult = <<>>
  /\ baseResults = <<>>
  /\ boostedResults = <<>>
  /\ IntentIdle
  /\ AffIdle
  /\ ChatIdle
  /\ SyncIdle
  /\ ModalIdle
  /\ RecsIdle
  /\ AIChatIdle
  /\ ResetIdle
  /\ EnsureIdle
  /\ SdkIdle
  /\ TypingIdle

SpecMany == InitMany /\ [][ManyNext]_vars

InitSdk ==
  /\ SdkInit
  /\ IntentIdle
  /\ AffIdle
  /\ BoostIdle
  /\ ChatIdle
  /\ SyncIdle
  /\ ModalIdle
  /\ RecsIdle
  /\ AIChatIdle
  /\ ResetIdle
  /\ EnsureIdle
  /\ TypingIdle

SpecSdk == InitSdk /\ [][SdkNext]_vars

InitTyping ==
  /\ TypingInit
  /\ IntentIdle
  /\ AffIdle
  /\ BoostIdle
  /\ ChatIdle
  /\ SyncIdle
  /\ RecsIdle
  /\ AIChatIdle
  /\ ResetIdle
  /\ EnsureIdle
  /\ SdkIdle

SpecTyping == InitTyping /\ [][TypingNext]_vars

\* ------------------------------------------------ affinity aggregator: claims

\* The score recommendation i records for the topic, if it records one.
HasTopic(rec, topic) ==
  \E k \in 1..Len(rec.topic_relevances) : rec.topic_relevances[k].topic = topic

ScoreIn(rec, topic) ==
  rec.topic_relevances[CHOOSE k \in 1..Len(rec.topic_relevances) :
                         rec.topic_relevances[k].topic = topic].score

RECURSIVE SumOver(_, _, _)
\* The sum of the topic's scores over the recommendations whose index is in idx.
SumOver(recs, topic, idx) ==
  IF idx = {} THEN Rat(0, 1)
  ELSE LET i == CHOOSE j \in idx : TRUE
       IN RatAdd(ScoreIn(recs[i], topic), SumOver(recs, topic, idx \ {i}))

Carrying(recs, topic) == {i \in 1..Len(recs) : HasTopic(recs[i], topic)}

\* C1: the affinity map has exactly the topics of the fetched recommendations,
\* each once, and each value is the sum of the topic's relevance scores divided
\* by their number.
C1_AffinityIsMean ==
  affPc = "done" =>
    /\ {affinities[i].topic : i \in 1..Len(affinities)}
         = {t \in Topics : Carrying(recommendations, t) # {}}
    /\ \A i, j \in 1..Len(affinities) :
         affinities[i].topic = affinities[j].topic => i = j
    /\ \A i \in 1..Len(affinities) :
         LET idx == Carrying(recommendations, affinities[i].topic)
         IN affinities[i].affinity
              = RatDivInt(SumOver(recommendations, affinities[i].topic, idx), Cardinality(idx))

\* billing was recommended twice, with relevances 0.2 and 0.8, and its affinity
\* is 0.5: neither the maximum 0.8 nor the sum 1.0.
C1_Witness_BillingHalf ==
  /\ affPc = "done"
  /\ Len(recommendations) = 2
  /\ \E i \in 1..Len(affinities) :
       /\ affinities[i].topic = <<"b","i","l","l","i","n","g">>
       /\ {ScoreIn(recommendations[k], <<"b","i","l","l","i","n","g">>) : k \in Carrying(recommendations, <<"b","i","l","l","i","n","g">>)}
            = {Rat(2, 10), Rat(8, 10)}
       /\ Cardinality(Carrying(recommendations, <<"b","i","l","l","i","n","g">>)) = 2
       /\ affinities[i].affinity = Rat(1, 2)

\* ---------------------------------------------- boosted search ranker: claims

\* The affinity the map gives a topic it holds.
AffinityOf(entries, topic) ==
  entries[CHOOSE i \in 1..Len(entries) : entries[i].topic = topic].affinity

\* The topics of the map that the article matches.
MatchedSet(article, entries) ==
  {entries[i].topic : i \in {i \in 1..Len(entries) : IsMatch(article, entries[i].topic)}}

\* The greatest affinity among the topics, 0 when there is none.
GreatestAffinity(entries, topics) ==
  IF topics = {} THEN Rat(0, 1)
  ELSE AffinityOf(entries,
                  CHOOSE t \in topics :
                    \A u \in topics : ~RatLess(AffinityOf(entries, t), AffinityOf(entries, u)))

\* Where the article of this uid stands in a list (1-based), 0 when absent.
PositionOf(rs, uid) ==
  IF \E i \in 1..Len(rs) : rs[i].uid = uid
  THEN CHOOSE i \in 1..Len(rs) : rs[i].uid = uid
  ELSE 0

ArticleOf(r) ==
  [uid |-> r.uid, title |-> r.title, excerpt |-> r.excerpt, article_tags |-> r.article_tags]

Ranked == boostPc = "done" /\ Len(baseResults) > 0

\* C2: every result's affinityBoost is round(100 * the greatest affinity among
\* the topics it matched), and its matchedTopics are those topics.
C2_BoostIsMaxNotSum ==
  Ranked =>
    \A i \in 1..Len(boostedResults) :
      LET r == boostedResults[i]
          matched == MatchedSet(ArticleOf(r), userTopicAffinities)
      IN /\ SeqToSet(r.matchedTopics) = matched
         /\ r.affinityBoost = RoundTimes100(GreatestAffinity(userTopicAffinities, matched))

\* An article that matches three topics of affinities 0.9, 0.1 and 0.1 and an
\* article that matches only the 0.9 topic both have affinityBoost 90.
C2_Witness_ThreeTopicsSameBoost ==
  /\ Ranked
  /\ userTopicAffinities =
       << [topic |-> TopicAuthentication, affinity |-> Rat(9, 10)],
          [topic |-> TopicApi, affinity |-> Rat(1, 10)],
          [topic |-> TopicBilling, affinity |-> Rat(1, 10)] >>
  /\ \E i, j \in 1..Len(boostedResults) :
       /\ Len(boostedResults[i].matchedTopics) = 3
       /\ boostedResults[j].matchedTopics = <<TopicAuthentication>>
       /\ boostedResults[i].affinityBoost = 90
       /\ boostedResults[j].affinityBoost = 90

\* C3: searchScore is 100 - 5 * (index in the baseline list), totalScore is
\* searchScore + affinityBoost, the results are the baseline's articles; and
\* for baseline [A, B] with {authentication: 0.9} the totals are A = 100,
\* B = 185 and the order is [B, A].
C3_ScoresFromBaselineIndex ==
  Ranked =>
    /\ Len(boostedResults) = Len(baseResults)
    /\ \A i \in 1..Len(boostedResults) :
         LET r == boostedResults[i]
             k == PositionOf(baseResults, r.uid)
         IN /\ k >= 1
            /\ baseResults[k] = ArticleOf(r)
            /\ r.searchScore = 100 - 5 * (k - 1)
            /\ r.totalScore = r.searchScore + r.affinityBoost
    /\ ( /\ baseResults = <<ArticleA, ArticleB>>
         /\ userTopicAffinities = <<[topic |-> TopicAuthentication, affinity |-> Rat(9, 10)]>> )
       => /\ <<boostedResults[1].uid, boostedResults[2].uid>> = <<"b", "a">>
          /\ boostedResults[1].totalScore = 185
          /\ boostedResults[2].totalScore = 100

\* The scenario: baseline [A, B], affinities {authentication: 0.9}, ranked.
C3_Witness_Scenario ==
  /\ Ranked
  /\ baseResults = <<ArticleA, ArticleB>>
  /\ userTopicAffinities = <<[topic |-> TopicAuthentication, affinity |-> Rat(9, 10)]>>
  /\ boostedResults[1].uid = "b"

\* C4: the results are in non-increasing order of totalScore, and results of
\* equal totalScore are in their baseline order.
C4_SortedStable ==
  Ranked =>
    \A i, j \in 1..Len(boostedResults) :
      i < j =>
        /\ boostedResults[i].totalScore >= boostedResults[j].totalScore
        /\ boostedResults[i].totalScore = boostedResults[j].totalScore
             => PositionOf(baseResults, boostedResults[i].uid)
                  < PositionOf(baseResults, boostedResults[j].uid)

\* Two results have the same totalScore: the later one in the baseline made up
\* its 5 points of rank by a boost.
C4_Witness_Tie ==
  /\ Ranked
  /\ \E i \in 1..(Len(boostedResults) - 1) :
       /\ boostedResults[i].totalScore = boostedResults[i + 1].totalScore
       /\ boostedResults[i + 1].affinityBoost > boostedResults[i].affinityBoost

\* The affinities a key can be raised to.
RaisedValues == AffinityValues \cup {Rat(1, 1)}

\* The map with the topic's affinity set to v.
WithAffinity(entries, topic, v) ==
  [i \in 1..Len(entries) |->
     IF entries[i].topic = topic THEN [entries[i] EXCEPT !.affinity = v] ELSE entries[i]]

\* The ways of raising one key of the map in use.
Raises ==
  {<<t, v>> \in {userTopicAffinities[i].topic : i \in 1..Len(userTopicAffinities)} \X RaisedValues :
     RatLess(AffinityOf(userTopicAffinities, t), v)}

\* C5 as claimed: raising the affinity of a topic a result matched never moves
\* that result later in the output (nor lowers its affinityBoost or totalScore).
C5_RaisingNeverMovesLater ==
  Ranked =>
    \A raise \in Raises :
      \A raised \in {RankResults(baseResults, WithAffinity(userTopicAffinities, raise[1], raise[2]))} :
         \A i \in 1..Len(boostedResults) :
           LET r == boostedResults[i]
               k == PositionOf(raised, r.uid)
           IN raise[1] \in SeqToSet(r.matchedTopics) =>
                /\ raised[k].affinityBoost >= r.affinityBoost
                /\ raised[k].totalScore >= r.totalScore
                /\ k <= i

\* C5 as amended: raising the affinity of a topic a result matched never lowers
\* that result's affinityBoost or totalScore, and never moves it behind a
\* result that does not match that topic.
C5_RaisingNeverMovesBehindUnmatched ==
  Ranked =>
    \A raise \in Raises :
      \A raised \in {RankResults(baseResults, WithAffinity(userTopicAffinities, raise[1], raise[2]))} :
         \A i \in 1..Len(boostedResults) :
           LET r == boostedResults[i]
               k == PositionOf(raised, r.uid)
           IN raise[1] \in SeqToSet(r.matchedTopics) =>
                /\ raised[k].affinityBoost >= r.affinityBoost
                /\ raised[k].totalScore >= r.totalScore
                /\ \A j \in (i + 1)..Len(boostedResults) :
                     raise[1] \notin SeqToSet(boostedResults[j].matchedTopics)
                       => k < PositionOf(raised, boostedResults[j].uid)

\* A result stands behind one that does not match its topic, and raising the
\* topic's affinity would take it past that one.
C5_Witness_RaisedOvertakes ==
  /\ Ranked
  /\ \E raise \in Raises :
       \E raised \in {RankResults(baseResults, WithAffinity(userTopicAffinities, raise[1], raise[2]))} :
          \E i, j \in 1..Len(boostedResults) :
            /\ j < i
            /\ raise[1] \in SeqToSet(boostedResults[i].matchedTopics)
            /\ raise[1] \notin SeqToSet(boostedResults[j].matchedTopics)
            /\ PositionOf(raised, boostedResults[i].uid) < PositionOf(raised, boostedResults[j].uid)

\* C18: getUserTopicAffinities never fails; with an empty user id no request
\* is made; and whenever the recommendation set is empty (no uid, a non-OK
\* answer, a throwing fetch, an answer without data or with none) it returns
\* the empty map.
C18_EmptyRecommendationsEmptyMap ==
  /\ affPc # "failed"
  /\ userUid = "" => affPc # "fetching" /\ fetchOutcome \in {"none", "skipped"}
  /\ fetchOutcome \in {"skipped", "notok", "throws", "nodata"} =>
       /\ affPc \in {"aggregate", "done"}
       /\ recommendations = <<>>
  /\ affPc = "done" /\ recommendations = <<>> => affinities = <<>>

\* The fetch threw although the proxy holds recommendations for the user, and
\* the empty map was returned.
C18_Witness_FetchThrew ==
  /\ affPc = "done"
  /\ userUid # ""
  /\ feed # <<>>
  /\ fetchOutcome = "throws"
  /\ affinities = <<>>

\* searchArticlesWithBoost has returned (it was called directly or by the modal).
BoostReturned == boostPc = "done" /\ searchKind # "plain"

\* No topic of the map matches any article of the baseline.
NoOverlap(entries, base) ==
  \A i \in 1..Len(base), k \in 1..Len(entries) : ~MatchesTopic(base[i], entries[k].topic)

\* C19: when the affinity map is empty or none of its topics matches any
\* result, searchArticlesWithBoost returns the baseline results in baseline
\* order, each with affinityBoost 0 and no matched topic; and the modal, when
\* it holds an empty map, takes the plain search and ends with isBoosted false
\* and the baseline as its results.
C19_BaselineWithoutSignal ==
  /\ BoostReturned /\ NoOverlap(userTopicAffinities, baseResults) =>
       /\ Len(boostedResults) = Len(baseResults)
       /\ \A i \in 1..Len(baseResults) :
            /\ ArticleOf(boostedResults[i]) = baseResults[i]
            /\ boostedResults[i].affinityBoost = 0
            /\ boostedResults[i].matchedTopics = <<>>
  /\ modalPc \in {"searching", "shown"} /\ userAffinities = <<>> =>
       /\ searchKind # "boosted"
       /\ ~TrimIsEmpty(query) => searchKind = "plain"
       /\ boostedResults = <<>>
  /\ modalPc = "shown" /\ userAffinities = <<>> =>
       /\ isBoosted = FALSE
       /\ results = baseResults

\* The modal held no affinities, searched plainly and shows two baseline
\* articles, not boosted.
C19_Witness_PlainSearchShown ==
  /\ modalPc = "shown"
  /\ userAffinities = <<>>
  /\ searchKind = "plain"
  /\ Len(results) = 2
  /\ isBoosted = FALSE

\* ------------------------------------------------ chat turn and endpoint: claims

\* The turn failed: an error reached POST's catch block.
ChatFailed == chatPc = "responded" /\ thrown # NoError

IsSuccessBody(body) == "success" \in DOMAIN body /\ body.success = TRUE

\* C9: a failure whose error message contains "rate limit" is answered 429,
\* any other failure 500 with a details field; a failure is never answered
\* with success = true, and success is answered only after the completion.
C9_RateLimit429Else500 ==
  /\ ChatFailed =>
       /\ httpResponse.status = IF Includes(thrown.message, RateLimit) THEN 429 ELSE 500
       /\ httpResponse.status = 500 => "details" \in DOMAIN httpResponse.body
       /\ ~IsSuccessBody(httpResponse.body)
  /\ IsSuccessBody(httpResponse.body) =>
       /\ thrown = NoError
       /\ httpResponse.status = 200
       /\ callLog # <<>> /\ callLog[Len(callLog)] = "llm_ok"

\* The chat completion of a valid request failed with a rate-limit error and
\* the endpoint answered 429.
C9_Witness_RateLimited ==
  /\ ChatFailed
  /\ chatBody.kind = "json"
  /\ callLog[Len(callLog)] = "llm_failed"
  /\ Includes(thrown.message, RateLimit)
  /\ httpResponse.status = 429

\* C10: hf.chatCompletion is called only after the embedding and the index
\* query of the turn have both returned, in that order, and the documents in
\* its prompt are those of the query's answer.
C10_RetrievalBeforeGeneration ==
  /\ \A k \in 1..Len(callLog) :
       callLog[k] = "llm" =>
         \E i, j \in 1..(k - 1) :
           /\ i < j
           /\ callLog[i] = "embed_ok"
           /\ callLog[j] = "query_ok"
  /\ (\E k \in 1..Len(callLog) : callLog[k] = "llm") =>
       /\ Len(llmCall.context) = Len(searchResults)
       /\ \A i \in 1..Len(searchResults) :
            /\ llmCall.context[i].content = searchResults[i].metadata.content
            /\ llmCall.context[i].title \in {searchResults[i].metadata.title, <<"U","n","k","n","o","w","n">>}
  /\ (\A k \in 1..Len(callLog) : callLog[k] # "llm") => llmCall = NoCall

\* The completion is in flight with the three documents the query returned.
C10_Witness_Generating ==
  /\ chatPc = "generating"
  /\ Len(searchResults) = 3
  /\ Len(llmCall.context) = 3
  /\ callLog = <<"embed", "embed_ok", "query", "query_ok", "llm">>

\* How often the event occurs in the log of the turn's external calls.
Occurrences(event) == Cardinality({k \in 1..Len(callLog) : callLog[k] = event})

FailureEvents == {"embed_failed", "query_failed", "llm_failed"}

\* C11: within one turn the embedding call, the index query and the chat
\* completion are each issued at most once; when one of them fails, nothing is
\* called after it, the turn ends with the error at the caller, and no
\* AIResponse is answered.
C11_FailFastNoRetry ==
  /\ \A call \in {"embed", "query", "llm"} : Occurrences(call) <= 1
  /\ \A k \in 1..Len(callLog) :
       callLog[k] \in FailureEvents =>
         /\ k = Len(callLog)
         /\ ChatFailed
         /\ thrown \in ThrownValues
         /\ ~IsSuccessBody(httpResponse.body)
         /\ httpResponse.status \in {429, 500}
  /\ callLog # <<>> /\ callLog[Len(callLog)] = "query_failed" => llmCall = NoCall

\* The index query failed after a successful embedding: the turn ended there,
\* without a completion call.
C11_Witness_QueryFailed ==
  /\ callLog = <<"embed", "embed_ok", "query", "query_failed">>
  /\ ChatFailed
  /\ llmCall = NoCall

\* ------------------------------------------- document sync and the index: claims

\* The documents the run asked an embedding for, in order.
Attempted == SelectSeq(syncLog, LAMBDA e : e.call = "featureExtraction")

\* The records the run sent to the index, in order.
Upserted == SelectSeq(syncLog, LAMBDA e : e.call = "upsert")

\* The route has answered after going through the loop.
LoopFinished == syncResponse.status = 200 /\ "total" \in DOMAIN syncResponse.body

\* C12: a failure of the embedding or the upsert of an article is recorded in
\* errors and the loop goes on; once getArticles returned articles the run
\* answers success = true, with every article attempted exactly once, in
\* order, and synced + |errors| = total = the number of fetched articles.
C12_PartialSuccessIsSuccess ==
  /\ syncPc \in {"loop", "embedding", "upserting"} =>
       /\ synced + Len(errors) = cursor - 1
       /\ syncResponse = NoSyncResponse
  /\ Len(articles) > 0 /\ syncResponse # NoSyncResponse => LoopFinished
  /\ LoopFinished =>
       /\ syncResponse.body.success = TRUE
       /\ syncResponse.body.total = Len(articles)
       /\ articles = cmsArticles
       /\ syncResponse.body.synced + Len(syncResponse.body.errors) = syncResponse.body.total
       /\ Len(Attempted) = Len(articles)
       /\ \A i \in 1..Len(articles) : Attempted[i].id = articles[i].uid

\* The first of two articles failed, the second was stored, and the route
\* answered success with synced = 1 and one error.
C12_Witness_FailedThenSynced ==
  /\ LoopFinished
  /\ syncResponse.body.total = 2
  /\ syncResponse.body.synced = 1
  /\ Len(syncResponse.body.errors) = 1
  /\ runs = 1
  /\ runHistory[1].ids = {articles[2].uid}

\* The uids of the CMS articles.
CmsUids == {cmsArticles[i].uid : i \in 1..Len(cmsArticles)}

\* C13 as claimed: a second run in succession, the CMS unchanged, leaves the
\* namespace with the same ids and the same count as the first.
C13_SecondRunSameIds ==
  \A k \in 1..(Len(runHistory) - 1) :
    /\ runHistory[k + 1].ids = runHistory[k].ids
    /\ runHistory[k + 1].count = runHistory[k].count

\* C13, amended: the namespace never holds two records of one id, its ids are
\* uids of CMS articles, a run never removes an id, and after a run that
\* stored every article the next run leaves the same ids and the same count.
C13_RerunNeverDuplicates ==
  /\ \A r \in BagToSet(namespace) : CopiesIn(r, namespace) = 1
  /\ \A r, q \in BagToSet(namespace) : r.id = q.id => r = q
  /\ \A r \in BagToSet(namespace) : r.id \in CmsUids
  /\ \A k \in 1..Len(runHistory) : runHistory[k].count = Cardinality(runHistory[k].ids)
  /\ \A k \in 1..(Len(runHistory) - 1) :
       /\ runHistory[k].ids \subseteq runHistory[k + 1].ids
       /\ runHistory[k].ids = CmsUids =>
            /\ runHistory[k + 1].ids = runHistory[k].ids
            /\ runHistory[k + 1].count = runHistory[k].count

\* Two runs in a row stored both articles, and the namespace holds two records.
C13_Witness_TwiceSynced ==
  /\ Len(runHistory) = 2
  /\ Len(cmsArticles) = 2
  /\ \A k \in 1..2 :
       /\ runHistory[k].synced = 2
       /\ runHistory[k].count = 2

\* The CMS article of the uid.
ArticleByUid(uid) == CHOOSE a \in SeqToSet(cmsArticles) : a.uid = uid

\* C14: for a document whose built content is empty neither the embedding
\* service nor the upsert is called, and no record of it is stored.
C14_EmptyContentSkipped ==
  /\ \A k \in 1..Len(syncLog) :
       syncLog[k].call \in {"featureExtraction", "upsert"} /\ syncLog[k].id \in CmsUids =>
         BuildContent(ArticleByUid(syncLog[k].id)) # <<>>
  /\ \A r \in BagToSet(namespace) : r.metadata.content # <<>>

\* C15 as claimed: createIndex is issued only when the index is not listed,
\* and at most once over all the calls of ensureIndexExists.
C15_CreateIssuedAtMostOnce ==
  /\ syncPc = "creating" => ~indexExists /\ pineconeIndex = NoIndex
  /\ indexExists => \A k \in 1..Len(syncLog) : syncLog[k].call # "createIndex"
  /\ Len(createLog) <= 1

\* C15, amended: createIndex is issued only when the index is not listed; a
\* call that finds the index issues none; once a createIndex has succeeded no
\* later call issues one, so that at most one createIndex ever succeeds (a
\* call after a failed createIndex issues it again).
C15_CreateIfAbsent ==
  /\ syncPc = "creating" => ~indexExists /\ pineconeIndex = NoIndex
  /\ indexExists => \A k \in 1..Len(syncLog) : syncLog[k].call # "createIndex"
  /\ Cardinality({k \in 1..Len(syncLog) : syncLog[k].call = "createIndex"}) <= 1
  /\ \A k \in 1..Len(createLog) : createLog[k] = "created" => k = Len(createLog)
  /\ Len(createLog) <= runs + 1

\* The first call created the index; the second found it and issued no
\* createIndex.
C15_Witness_SecondCallFindsIndex ==
  /\ runs = 1
  /\ createLog = <<"created">>
  /\ syncPc = "fetching"
  /\ indexExists
  /\ \A k \in 1..Len(syncLog) : syncLog[k].call # "createIndex"

\* C16: when ensureIndexExists returns after creating the index, the index
\* serves requests: an upsert issued then does not fail for the index still
\* being created.
C16_ReadyOnReturn ==
  /\ syncPc = "fetching" /\ ~indexExists => Serves(pineconeIndex)
  /\ \A k \in 1..Len(errors) :
       ~indexExists => ~Includes(errors[k], NotReadyError)

\* C17: every vector sent to the index in an upsert, and every vector
\* stored, has 384 components.
C17_OnlyIndexDimensionStored ==
  /\ \A r \in BagToSet(namespace) : r.values = EMBEDDING_DIMENSION
  /\ \A k \in 1..Len(syncLog) :
       syncLog[k].call = "upsert" => syncLog[k].arg = EMBEDDING_DIMENSION

\* ---------------------------------------- personalized recommendations: claims

\* C20: the component never ends with an empty personalized list: when
\* loadRecommendations is through, isLoading is false, a personalized list has
\* an article, and whenever the personalized path had nothing to show (no uid,
\* profile still loading, no recommendation, no article for the recommended
\* uids) the component shows featured articles with isPersonalized false.
C20_FallsBackToFeatured ==
  recPc = "done" =>
    /\ isLoading = FALSE
    /\ isPersonalized => Len(recArticles) > 0
    /\ \/ profileUid = ""
       \/ profileLoading
       \/ lyticsRecs = <<>>
       \/ GetArticlesByUids(UidsOf(lyticsRecs)) = <<>>
       => /\ ~isPersonalized
          /\ recArticles \in {featuredArticles, <<>>}

\* ---------------------------------------------- intent classifier: claims

IntentNames == {intents[i].intent : i \in 1..Len(intents)}

IntentIndex(name) == CHOOSE i \in 1..Len(intents) : intents[i].intent = name

\* How many keywords of table entry i occur in the lower-cased message.
MatchCount(i, msg) ==
  LET lower == ToLowerCase(msg)
  IN Cardinality({k \in 1..Len(intents[i].keywords) :
                    Includes(lower, intents[i].keywords[k])})

\* The keyword-match count of every table entry.
MatchCounts(msg) == [i \in 1..Len(intents) |-> MatchCount(i, msg)]

\* The greatest of the counts (0 when nothing matches).
Greatest(counts) ==
  CHOOSE n \in {counts[i] : i \in DOMAIN counts} :
    \A i \in DOMAIN counts : counts[i] <= n

\* The match count of the intent detectIntent returned (0 for "general").
WinningCount ==
  IF intentResult.intent \in IntentNames
  THEN MatchCount(IntentIndex(intentResult.intent), message)
  ELSE 0

\* C6: detectIntent returns the intent with the greatest keyword-match count,
\* the earliest one in table order among those that share it, and "general"
\* when no keyword matches.
C6_GreatestCountEarliestWins ==
  intentPc = "done" =>
    LET counts == MatchCounts(message)
        best == Greatest(counts)
    IN IF best = 0
       THEN intentResult.intent = "general"
       ELSE /\ intentResult.intent \in IntentNames
            /\ counts[IntentIndex(intentResult.intent)] = best
            /\ \A j \in 1..(IntentIndex(intentResult.intent) - 1) : counts[j] < best

\* Two intents share the greatest count and the earlier one was returned.
C6_Witness_TieResolved ==
  /\ intentPc = "done"
  /\ LET counts == MatchCounts(message)
         best == Greatest(counts)
     IN /\ best > 0
        /\ \E i, j \in 1..Len(intents) :
             /\ i < j
             /\ counts[i] = best
             /\ counts[j] = best
             /\ intentResult.intent = intents[i].intent

\* C7: the returned topics are exactly the matched keywords of the returned
\* intent; no keyword of another intent's list is among them.
C7_TopicsOfWinningIntentOnly ==
  intentPc = "done" =>
    SeqToSet(intentResult.topics) =
      IF intentResult.intent \in IntentNames
      THEN LET kws == intents[IntentIndex(intentResult.intent)].keywords
           IN {kws[k] : k \in {k \in 1..Len(kws) : Includes(ToLowerCase(message), kws[k])}}
      ELSE {}

\* C8: confidence is min(0.3 * matchCount + 0.4, 1.0) of the winning intent's
\* match count: 0.4 at no match, 0.7 at one, 1.0 from two on (in tenths).
C8_ConfidenceSaturates ==
  intentPc = "done" =>
    /\ intentResult.confidence \in 4..10
    /\ WinningCount = 0 => intentResult.confidence = 4
    /\ WinningCount = 1 => intentResult.confidence = 7
    /\ WinningCount >= 2 => intentResult.confidence = 10

\* Three keywords of one intent matched, and the confidence stayed at 1.0.
C8_Witness_Saturated ==
  /\ intentPc = "done"
  /\ WinningCount >= 3
  /\ intentResult.confidence = 10

\* -------------------------------------------------------- AIChat component: claims

\* C21: a successful chat response carries the sessionId of its request when
\* the request had one and a generated one when it had none; the component
\* stores the returned id and sends it with the next request, so the
\* successful turns of one conversation (the requests sent between two
\* resets) all carry the same sessionId.
C21_SessionIdContinuity ==
  /\ \A i \in 1..Len(turns) :
       IF turns[i].requested # ""
       THEN turns[i].returned = turns[i].requested
       ELSE turns[i].returned \in FreshSessionIds
  /\ \A i, j \in 1..Len(turns) :
       turns[i].conversation = turns[j].conversation
         => turns[i].returned = turns[j].returned
  /\ \A request \in inFlight :
       \A i \in 1..Len(turns) :
         turns[i].conversation = request.conversation
           => request.sessionId = turns[i].returned

\* Two successful turns of one conversation: the first sent without an id,
\* the second with the id the first returned.
C21_Witness_SecondTurnSameId ==
  /\ Len(turns) >= 2
  /\ turns[1].conversation = turns[2].conversation
  /\ turns[1].requested = ""
  /\ turns[2].requested = turns[1].returned
  /\ turns[2].returned = turns[1].returned

\* C30: the message list of AIChat alternates user, assistant, user, ...
\* starting with a user message; at most one request is in flight; after
\* resetChat nothing from before the reset is in the message list, nor in the
\* conversationHistory or the sessionId of a request sent after it.
C30_ConversationIntegrity ==
  /\ \A i \in 1..Len(messages) :
       messages[i].role = IF i % 2 = 1 THEN "user" ELSE "assistant"
  /\ Cardinality(inFlight) <= 1
  /\ \A i \in 1..Len(messages) : messages[i].conversation = conversation
  /\ \A request \in inFlight :
       request.conversation = conversation
         => /\ request.historyFrom \subseteq {conversation}
            /\ request.sessionFrom \in {-1, conversation}

\* ---------------------------------------- boosted search ranker: topic matching

\* Substring overlap in either direction, case-insensitively.
Overlaps(field, topicLower) ==
  \/ Includes(ToLowerCase(field), topicLower)
  \/ Includes(topicLower, ToLowerCase(field))

\* The either-direction test on the tags, the title and the excerpt.
OverlappingPairs ==
  {p \in Articles \X SeqToSet(BoostTopics) :
     LET topicLower == ToLowerCase(p[2])
     IN \/ \E k \in 1..Len(p[1].article_tags) : Overlaps(p[1].article_tags[k], topicLower)
        \/ Overlaps(p[1].title, topicLower)
        \/ Overlaps(p[1].excerpt, topicLower)}

\* C22: a topic of the affinity map is in a result's matchedTopics exactly
\* when, case-insensitively, the topic is a substring of, or contains as a
\* substring, one of the article's tags, its title or its excerpt.
C22_EitherDirectionAllFields ==
  BoostReturned =>
    \A i \in 1..Len(boostedResults), k \in 1..Len(userTopicAffinities) :
      LET r == boostedResults[i]
          topic == userTopicAffinities[k].topic
          article == CHOOSE a \in Articles : a.uid = r.uid
      IN (\E n \in 1..Len(r.matchedTopics) : r.matchedTopics[n] = topic)
           <=> <<article, topic>> \in OverlappingPairs

\* ------------------------------------------- document sync: one at a time

\* The positions of the log at which a document's external calls start.
DocumentStarts == {i \in 1..Len(syncLog) : syncLog[i].call = "featureExtraction"}

\* C23: the sync processes its articles one at a time (a document's embedding
\* call, then its upsert, and no call of another document between them), and
\* the throttle delay passes between the end of a document's processing and
\* the start of the next document's calls, whether the document was stored
\* or failed.
C23_OneAtATimeThrottled ==
  /\ \A i \in 1..Len(syncLog) :
       syncLog[i].call = "upsert"
         => i > 1 /\ syncLog[i - 1].call = "featureExtraction"
                  /\ syncLog[i - 1].id = syncLog[i].id
  /\ \A i \in DocumentStarts :
       (\E j \in DocumentStarts : j < i)
         => /\ syncLog[i - 1].call = "setTimeout"
            /\ syncLog[i - 1].arg = ThrottleMs

\* ---------------------------------------- affinity aggregator: the limit

\* C24: getUserTopicAffinities aggregates over at most 10 recommendations,
\* however many the CDP holds for the user: the map is the one of the first
\* 10 of them.
C24_AtMostTenContribute ==
  affPc = "done" /\ fetchOutcome = "ok"
    => /\ Len(recommendations) <= AffinityLimit
       /\ affinities = AffinitiesOf(SliceTo(feed, AffinityLimit))

\* ------------------------------------------------------ index reset: claims

IsPrefix(s, t) == Len(s) <= Len(t) /\ s = SubSeq(t, 1, Len(s))

\* The steps of a reset run: with the wait after a deleteIndex that returned,
\* and without it after one that threw.
ResetOrders ==
  { << CallEntry("deleteIndex", "", 0), CallEntry("setTimeout", "", DeleteWaitMs),
       CallEntry("createIndex", "", 384), CallEntry("setTimeout", "", CreateWaitMs) >>,
    << CallEntry("deleteIndex", "", 0),
       CallEntry("createIndex", "", 384), CallEntry("setTimeout", "", CreateWaitMs) >> }

ResetCreateSucceeded ==
  Len(resetLog) > 0 /\ resetLog[Len(resetLog)] = CallEntry("setTimeout", "", CreateWaitMs)

C26_NoContention ==
  /\ Cardinality({i \in 1..Len(ensureLog) : ensureLog[i].call = "createIndex"}) <= 1
  /\ \A p \in Invocations : ensurePc[p] # "thrown"

\* ------------------------------------- boosted search ranker: score range

\* C27: every result of searchArticlesWithBoost has a searchScore among 100,
\* 95, ..., 55, never a negative one: the baseline it ranks has at most 10
\* articles, distinct by uid, the title matches before the excerpt-only ones.
C27_SearchScoreRange ==
  /\ boostPc \in {"rank", "done"}
       => /\ Len(baseResults) <= 10
          /\ \A i, j \in 1..Len(baseResults) :
               baseResults[i].uid = baseResults[j].uid => i = j
          /\ \A i \in 1..Len(baseResults) :
               IF i <= Len(titleResult)
               THEN baseResults[i] = titleResult[i]
               ELSE \A j \in 1..Len(titleResult) : titleResult[j].uid # baseResults[i].uid
  /\ boostPc = "done"
       => \A i \in 1..Len(boostedResults) :
            /\ boostedResults[i].searchScore \in {100 - 5 * k : k \in 0..9}
            /\ boostedResults[i].searchScore >= 0

\* Ten results, excerpt-only matches among them, the last baseline position
\* scored 55.
C27_Witness_TenResults ==
  /\ boostPc = "done"
  /\ Len(boostedResults) = 10
  /\ Len(titleResult) \in 1..9
  /\ \E i \in 1..10 : boostedResults[i].searchScore = 55
  /\ \E i \in 1..10 : boostedResults[i].affinityBoost = 90

\* ------------------------------------------------ Personalize SDK: claims

\* C28: Personalize.init is never invoked while another invocation is in
\* flight nor after one has succeeded; a call of initPersonalize that overlaps
\* an initialization receives its promise, a call after a success the
\* instance; a new invocation happens only after the previous one failed.
C28_SingleFlight ==
  /\ Cardinality(Pending) <= 1
  /\ \A i \in 1..Len(inits) : i < Len(inits) => inits[i] = "rejected"
  /\ \A c \in Callers :
       /\ received[c].kind = "promise" /\ received[c].inFlight # {}
            => received[c].inFlight = {received[c].of}
       /\ received[c].kind = "instance"
            => /\ inits[received[c].of] = "resolved"
               /\ received[c].of = sdkInstance
               /\ received[c].inFlight = {}
       /\ received[c].kind = "null" => ~configured

\* One call started an initialization, a second overlapped it and received
\* its promise, it failed, and a third call started the next.
C28_Witness_SharedThenRetried ==
  /\ Len(inits) = 2
  /\ inits[1] = "rejected"
  /\ \E c, d, e \in Callers :
       /\ c # d
       /\ received[c] = [kind |-> "promise", of |-> 1, inFlight |-> {}]
       /\ received[d] = [kind |-> "promise", of |-> 1, inFlight |-> {1}]
       /\ received[e] = [kind |-> "promise", of |-> 2, inFlight |-> {}]

\* ------------------------------------ search modal while typing: claims

\* C29: once every search in flight has completed and no debounce timer is
\* pending, the results and the isBoosted flag the modal shows are those of
\* the most recently issued performSearch, whatever the order in which the
\* searches completed and whether the modal was closed in between.
C29_NoStaleResults ==
  searchesInFlight = {} /\ ~debounceTimer.set /\ latest.answered
    => /\ results = latest.answer
       /\ isBoosted = latest.boosted

=============================================================================
